---- MODULE Spec2Model ----
(***************************************************************************)
(* The segments layer of the zoomable waveform view (peaks.js):            *)
(* src/src/main/views/segments-layer.js, second definition of              *)
(* SegmentsLayer (lines 724-1589), with the parts of WaveformZoomView      *)
(* (src/src/main/views/waveform-shape.js, lines 156-708) it calls.         *)
(*                                                                         *)
(* Units.  Times are integers counting ticks of 0.05 s.  Horizontal pixel  *)
(* coordinates are integers counting HALF pixels, because the handler of   *)
(* segments.select halves a pixel width (line 861); PX(n) is n whole       *)
(* pixels.  Vertical coordinates count whole pixels.                       *)
(*                                                                         *)
(* Every handler runs to completion before the next event (JavaScript's    *)
(* event loop), so one action is one whole handler, the handlers it        *)
(* triggers synchronously through peaks.emit included.  A handler is a     *)
(* function from the "world" record w (all the state) to the next world.   *)
(***************************************************************************)
EXTENDS Integers, Sequences, FiniteSets

\* ------------------------------------------------------------ bounds
\* ticks of 0.05 s in half a pixel: scale / sample_rate = 0.1 s per pixel
HalfPixelTicks == 1
\* half the width of the view's container, in pixels (clientWidth is 2 * HalfWidth)
HalfWidth == 20
\* length of the resampled waveform in pixels (_pixelLength)
PixelLength == 64
\* half the height of the view, in pixels
HalfHeight == 20
\* number of Visual objects that can exist at once (live or still referenced)
MaxGroups == 4
\* nesting depth of _renderSegmentGroup calls before the call stack overflows
MaxRenderDepth == 3
\* number of pointer-downs in one behaviour
MaxMouseDowns == 1
\* number of segments.update events sent by the host in one behaviour
MaxHostUpdates == 1
\* number of store events after the first segments.add in one behaviour
MaxStoreEvents == 1
\* the largest finite amplitude scale the host asks for, in tenths (2.5, the
\* largest the wheel gesture asks for)
MaxScale == 25

\* ------------------------------------------------------------ program constants
\* minSegmentDuration = 0.2 s, in ticks
MinSegmentDuration == 4
\* this._handleSize, the width and height of a handle in pixels
HandleSize == 16
\* the tolerance band of a handle at the segment's edge, in pixels
EdgeTolerance == 3
\* the pointer's y after mouseleave
LeaveSentinelY == 0 - 20
\* the pointer's y after segments.select with no segment
DeselectSentinelY == 0 - 100
\* the pixels left of a selected segment after the view scrolled to it
SelectMargin == 100

PX(n) == 2 * n
Width == PX(2 * HalfWidth)
Height == 2 * HalfHeight

SegIds == {1, 2}
NoGroup == 0
NoSegment == 0
Refs == 1..MaxGroups

\* The segments the host holds, as times in ticks (a pixel is 2 ticks at
\* HalfPixelTicks = 1).  Every segment is longer than 0.2 s.
StoreConfigs ==
  { \* apart, with times off the pixel grid; segment 1 lies left of the window
    \* at frame offset 24
    <<[startTime |-> 20, endTime |-> 43], [startTime |-> 61, endTime |-> 124]>>,
    \* the store accepts overlapping segments: segment 2 lies inside segment 1
    <<[startTime |-> 20, endTime |-> 70], [startTime |-> 36, endTime |-> 60]>> }

\* the times the host gives a segment it edits (Segment.update)
HostEdits == {[startTime |-> 50, endTime |-> 56]}
\* the times the host gives a segment it moves out of the window at offset 0
HostMoves == {[startTime |-> 90, endTime |-> 100]}

\* pointer positions the stage reports, in whole pixels relative to the layer
PointerXs == {0, 1, 8, 20, 31, 37}
PointerYs == {8, 30}
\* frame offsets the host asks for (user_scroll.zoomview), in whole pixels
ScrollOffsets == {0, 24}

VARIABLES
  segs,            \* the Segment objects of the host: id -> times, isFocused, editable
  store,           \* peaks.segments: the ids in the store, in insertion order
  frameOffset,     \* WaveformZoomView._frameOffset (half pixels)
  mouseSet,        \* FALSE while _mouseX and _mouseY are undefined
  mouseX,          \* SegmentsLayer._mouseX (half pixels)
  mouseY,          \* SegmentsLayer._mouseY (pixels)
  isMouseOver,     \* SegmentsLayer._isMouseOver
  isMouseDragging, \* SegmentsLayer._isMouseDragging
  groups,          \* the Konva.Group objects made by _createSegmentGroup
  keys,            \* Object.keys(_segmentGroups): ids in insertion order
  refOf,           \* _segmentGroups: id -> group object, NoGroup when absent
  visibleSegmentsCount, \* _visibleSegmentsCount, -1 while undefined
  emitted,         \* the events emitted by the last handler, in order
  error,           \* the exception the last handler raised, "none" otherwise
  handled,         \* the last handler that ran
  mouseDowns,      \* pointer-downs so far
  hostUpdates,     \* host updates so far
  capturing,       \* _mouseCapturingRect is a child of the layer
  pointerIn,       \* environment: the pointer is inside the layer's area
  storeEvents,     \* store events after the first segments.add so far
  destroyed,       \* the groups the last handler destroyed, in order
  redrawn,         \* updateSegments drew the layer in the last handler (line 1466)
  written,         \* the boundaries the last handler wrote, in order
  segs0,           \* history: the segments as the host first held them
  pressTimes,      \* history: the segments just before the latest pointer-down
  shapes,          \* the attributes of the Konva shapes of each group, as
                   \* lines 1289-1383 last set them (followed under SpecVisuals)
  converted,       \* a pixel index or a time, what the view converts it to,
                   \* and what it converts that back to (SpecConvert)
  amplitude        \* WaveformZoomView._amplitudeScale (view), WaveformShape._scale
                   \* (shape), and the argument of the last setAmplitudeScale
                   \* (given); JavaScript values, Numbers in tenths

vars == <<segs, store, frameOffset, mouseSet, mouseX, mouseY, isMouseOver,
          isMouseDragging, groups, keys, refOf, visibleSegmentsCount,
          emitted, error, handled, mouseDowns, hostUpdates, capturing,
          pointerIn, storeEvents, destroyed, redrawn, written, segs0, pressTimes,
          shapes, converted, amplitude>>

\* ------------------------------------------------------------ values
\* a JavaScript value that is undefined, true or false
Tri(b) == IF b THEN "true" ELSE "false"
Truthy(t) == t = "true"

NewHandle ==
  [isMouseOver |-> "undefined", isMouseDragging |-> FALSE,
   mouseStartDiffX |-> 0, x |-> 0]

\* the fields _createSegmentGroup gives a new Konva.Group; isMouseDragging and
\* isSegmentTouching are undefined there and only ever tested for truth
NewGroup(id) ==
  [live |-> TRUE, attached |-> FALSE, segment |-> id,
   isMouseOver |-> "undefined", isSegmentTouching |-> FALSE,
   neighbours |-> [left |-> NoGroup, right |-> NoGroup],
   startHandle |-> NewHandle, endHandle |-> NewHandle,
   highlightRect |-> [x |-> 0, width |-> 0]]

\* ------------------------------------------------------------ the shapes' attributes
\* An opacity is held in units of 1/12000, which holds every opacity the
\* render computes from whole and half pixels without rounding, the square
\* root of getDistance apart (rounded down to the unit).
Opacity(hundredths) == 120 * hundredths

\* line 1203
activeRange == 100

\* line 1209: the falloff effects are computed for at most this many segments
EffectsLimit == 30

\* The attributes Konva gives the shapes _createSegmentGroup makes (lines
\* 1122-1148, 1158-1162, 1184-1188): visible, opacity 1, no fill, but for the
\* highlight's fill and opacity; highlightRectDistance is undefined (<<>>).
NewShape ==
  [highlightRectDistance |-> <<>>,
   highlightRect |-> [fill |-> "#676C72", opacity |-> Opacity(20)],
   startHandle |-> [visible |-> TRUE, opacity |-> Opacity(100), fill |-> "undefined"],
   endHandle |-> [visible |-> TRUE, opacity |-> Opacity(100), fill |-> "undefined"],
   startTimeLabel |-> [visible |-> TRUE],
   endTimeLabel |-> [visible |-> TRUE]]

FreeGroup == [NewGroup(1) EXCEPT !.live = FALSE]

World ==
  [segs |-> segs, store |-> store, frameOffset |-> frameOffset,
   mouseSet |-> mouseSet, mouseX |-> mouseX, mouseY |-> mouseY,
   isMouseOver |-> isMouseOver, isMouseDragging |-> isMouseDragging,
   groups |-> groups, keys |-> keys, refOf |-> refOf,
   visibleSegmentsCount |-> visibleSegmentsCount,
   emitted |-> <<>>, error |-> "none", capturing |-> capturing,
   destroyed |-> <<>>, redrawn |-> FALSE, written |-> <<>>,
   \* locals of the running handler
   full |-> FALSE, targettedSegmentGroup |-> FALSE, count |-> 0]

\* ------------------------------------------------------------ WaveformZoomView
\* The Numbers that are not finite.  Infinity is past every pixel and time of
\* the model and compares as such; NaN is a value apart: arithmetic on it
\* gives NaN and every comparison with it is false.
Infinity == 1000000

NaN == 0 - 2 * Infinity

timeToPixels(time) == PX(time \div (2 * HalfPixelTicks))

pixelsToTime(pixels) == IF pixels = NaN THEN NaN ELSE pixels * HalfPixelTicks

\* Utils.clamp: neither comparison holds for NaN, which is returned as it is
clamp(value, min, max) ==
  IF value # NaN /\ value < min THEN min
  ELSE IF value # NaN /\ value > max THEN max ELSE value

frameStartTime(w) == pixelsToTime(w.frameOffset)
frameEndTime(w) ==
  pixelsToTime(IF w.frameOffset = NaN THEN NaN ELSE w.frameOffset + Width)

\* ------------------------------------------------------------ JavaScript Numbers
\* The view computes with Numbers (IEEE 754 binary64).  A positive Number is
\* held as its 53 significant bits, as limbs of 12 bits, most significant
\* first, and the exponent of the last bit: its value is limbs * 2^exp.  Zero
\* has no limbs.  Every operation rounds to nearest, ties to even.
MantissaBits == 53

LimbBits == 12

RECURSIVE ToLimbs(_)
ToLimbs(k) == IF k = 0 THEN <<>> ELSE Append(ToLimbs(k \div 2^LimbBits), k % 2^LimbBits)

RECURSIVE FromLimbs(_)
FromLimbs(limbs) ==
  IF limbs = <<>> THEN 0
  ELSE 2^LimbBits * FromLimbs(SubSeq(limbs, 1, Len(limbs) - 1)) + limbs[Len(limbs)]

RECURSIVE Strip(_)
Strip(limbs) == IF limbs = <<>> \/ limbs[1] # 0 THEN limbs ELSE Strip(Tail(limbs))

\* limbs * k + carry, for k < 2^16
RECURSIVE scaleUp(_, _, _)
scaleUp(limbs, k, carry) ==
  IF limbs = <<>> THEN ToLimbs(carry)
  ELSE Append(scaleUp(SubSeq(limbs, 1, Len(limbs) - 1), k,
                      (limbs[Len(limbs)] * k + carry) \div 2^LimbBits),
              (limbs[Len(limbs)] * k + carry) % 2^LimbBits)

\* the quotient and the remainder of rest by k, for k < 2^16
RECURSIVE divide(_, _, _, _)
divide(rest, k, q, rem) ==
  IF rest = <<>> THEN [q |-> Strip(q), rem |-> rem]
  ELSE divide(Tail(rest), k, Append(q, (2^LimbBits * rem + Head(rest)) \div k),
              (2^LimbBits * rem + Head(rest)) % k)

\* the number of bits of a natural number without leading zero limbs
BitLength(limbs) ==
  IF limbs = <<>> THEN 0
  ELSE LimbBits * (Len(limbs) - 1)
       + CHOOSE b \in 1..LimbBits : 2^(b - 1) <= limbs[1] /\ limbs[1] < 2^b

\* limbs \div 2^s, and whether a one was lost
shiftRight(limbs, s) ==
  [q |-> divide(SubSeq(limbs, 1, Len(limbs) - s \div LimbBits), 2^(s % LimbBits), <<>>, 0).q,
   lost |-> \/ divide(SubSeq(limbs, 1, Len(limbs) - s \div LimbBits),
                      2^(s % LimbBits), <<>>, 0).rem # 0
            \/ \E i \in (Len(limbs) - s \div LimbBits + 1)..Len(limbs) : limbs[i] # 0]

\* the 54 leading bits v.q of a longer number, rounded to 53 bits
nearest(v, exp) ==
  IF v.q[Len(v.q)] % 2 = 1 /\ (v.lost \/ (v.q[Len(v.q)] \div 2) % 2 = 1)
  THEN IF BitLength(scaleUp(shiftRight(v.q, 1).q, 1, 1)) > MantissaBits
       THEN [limbs |-> shiftRight(scaleUp(shiftRight(v.q, 1).q, 1, 1), 1).q, exp |-> exp + 2]
       ELSE [limbs |-> scaleUp(shiftRight(v.q, 1).q, 1, 1), exp |-> exp + 1]
  ELSE [limbs |-> shiftRight(v.q, 1).q, exp |-> exp + 1]

\* the Number nearest to limbs * 2^exp (plus a fraction, when sticky)
Round(limbs, sticky, exp) ==
  IF limbs = <<>> THEN [limbs |-> <<>>, exp |-> 0]
  ELSE IF BitLength(limbs) <= MantissaBits
  THEN [limbs |-> scaleUp(limbs \o [i \in 1..((MantissaBits - BitLength(limbs)) \div LimbBits) |-> 0],
                          2^((MantissaBits - BitLength(limbs)) % LimbBits), 0),
        exp |-> exp - (MantissaBits - BitLength(limbs))]
  ELSE nearest([q |-> shiftRight(limbs, BitLength(limbs) - MantissaBits - 1).q,
                lost |-> sticky \/ shiftRight(limbs, BitLength(limbs) - MantissaBits - 1).lost],
               exp + BitLength(limbs) - MantissaBits - 1)

\* x / k, for a Number x and an integer k < 2^16 (x * k is
\* Round(scaleUp(x.limbs, k, 0), FALSE, x.exp))
divInt(x, k) ==
  Round(divide(x.limbs \o <<0, 0>>, k, <<>>, 0).q,
        divide(x.limbs \o <<0, 0>>, k, <<>>, 0).rem # 0, x.exp - 2 * LimbBits)

\* Math.floor of a Number that is not negative
floor(x) ==
  IF x.limbs = <<>> \/ MantissaBits + x.exp <= 0 THEN 0
  ELSE FromLimbs(shiftRight(x.limbs, 0 - x.exp).q)

\* this._data.adapter: the sample rate of the audio and the samples per pixel
adapter == [sample_rate |-> 44100, scale |-> 512]

\* WaveformZoomView.prototype.timeToPixels, of a time that is a Number:
\* Math.floor(time * sample_rate / scale)
numberTimeToPixels(time) ==
  floor(divInt(Round(scaleUp(time.limbs, adapter.sample_rate, 0), FALSE, time.exp),
               adapter.scale))

\* WaveformZoomView.prototype.pixelsToTime, as a Number: pixels * scale / sample_rate
numberPixelsToTime(pixels) ==
  divInt(Round(scaleUp(Round(ToLimbs(pixels), FALSE, 0).limbs, adapter.scale, 0), FALSE,
               Round(ToLimbs(pixels), FALSE, 0).exp),
         adapter.sample_rate)

\* the Number of a time given in hundredths of a second: h / 100
hundredths(h) == divInt(Round(ToLimbs(h), FALSE, 0), 100)

\* ------------------------------------------------------------ the segment store
isVisible(seg, startTime, endTime) ==
  /\ startTime # NaN /\ endTime # NaN
  /\ seg.startTime < endTime /\ startTime < seg.endTime

RECURSIVE SortedInsert(_, _, _)
SortedInsert(w, sorted, id) ==
  IF sorted = <<>> THEN <<id>>
  ELSE IF w.segs[id].startTime < w.segs[Head(sorted)].startTime
       THEN <<id>> \o sorted
       ELSE <<Head(sorted)>> \o SortedInsert(w, Tail(sorted), id)

RECURSIVE SortByStart(_, _)
SortByStart(w, ids) ==
  IF ids = <<>> THEN <<>>
  ELSE SortedInsert(w, SortByStart(w, SubSeq(ids, 1, Len(ids) - 1)), ids[Len(ids)])

\* peaks.segments.find(startTime, endTime)
find(w, startTime, endTime) ==
  SortByStart(w, SelectSeq(w.store,
                 LAMBDA id : isVisible(w.segs[id], startTime, endTime)))

\* ------------------------------------------------------------ the heap of groups
\* The groups that can still be read: those in _segmentGroups, those attached
\* to the layer, and those a reachable group keeps in its neighbours field.
Roots(w) ==
  {r \in Refs : w.groups[r].live /\
                (w.groups[r].attached \/ \E id \in SegIds : w.refOf[id] = r)}

RECURSIVE Reach(_, _)
Reach(w, S) ==
  LET T == (S \cup {w.groups[r].neighbours.left : r \in S}
              \cup {w.groups[r].neighbours.right : r \in S}) \ {NoGroup}
  IN IF T = S THEN S ELSE Reach(w, T)

\* mouseStartDiffX is read only while its handle's isMouseDragging is true
\* (line 1226, 1252) and neighbours only while one of the two is (lines 1233,
\* 1259); lines 924-935 write them whenever they set isMouseDragging.  The
\* values they hold while no handle is dragged are never read again, and are
\* not kept.
forget(grp) ==
  LET dragS == grp.startHandle.isMouseDragging
      dragE == grp.endHandle.isMouseDragging
  IN [grp EXCEPT !.startHandle.mouseStartDiffX = IF dragS THEN @ ELSE 0,
                 !.endHandle.mouseStartDiffX = IF dragE THEN @ ELSE 0,
                 !.neighbours = IF dragS \/ dragE THEN @
                                ELSE [left |-> NoGroup, right |-> NoGroup]]

\* objects no reference reaches are dropped (garbage collection)
collect(w0) ==
  LET w == [w0 EXCEPT !.groups = [r \in Refs |-> forget(w0.groups[r])]]
      R == Reach(w, Roots(w))
  IN [w EXCEPT !.groups = [r \in Refs |-> IF r \in R THEN w.groups[r] ELSE FreeGroup]]

FreeRefs(w) == {r \in Refs : ~w.groups[r].live}

\* ------------------------------------------------------------ _renderSegmentGroup
draggedEvent(g, id, isInHandle) ==
  [name |-> "segments.dragged", group |-> g, segment |-> id, isInHandle |-> isInHandle]

\* line 1230: the start handle may not come closer than minSegmentDuration to the end
startAtMinimum(newTime, endTime) == newTime >= endTime - MinSegmentDuration

\* line 1256: the end handle may not come closer than minSegmentDuration to the start
endAtMinimum(newTime, startTime) == newTime <= startTime + MinSegmentDuration

\* the comparison of line 1234 turned around
touchesLeftReversed(neighbourEndTime, newTime) == neighbourEndTime < newTime

\* line 1234: the left neighbour's end is at or past the candidate
touchesLeft(neighbourEndTime, newTime) == neighbourEndTime >= newTime

\* line 1260: the right neighbour's start is at or before the candidate
touchesRight(neighbourStartTime, newTime) == neighbourStartTime <= newTime

\* a test that never lets the start time be written
startNeverCommits(newTime, seg) == FALSE

\* line 1244: the start time is written when the new time differs from it
startCommits(newTime, seg) == newTime # seg.startTime

\* line 1270: the end time is written when the new time differs from the START time
endCommits(newTime, seg) == newTime # seg.startTime

\* lines 1277-1288: the pixel geometry of the highlight and of the two handles
layout(w, g) ==
  LET seg == w.segs[w.groups[g].segment]
      startPixel == timeToPixels(seg.startTime) - w.frameOffset
      endPixel == timeToPixels(seg.endTime) - w.frameOffset
  IN IF w.error # "none" THEN w
     ELSE [w EXCEPT !.groups[g].highlightRect =
                       [x |-> startPixel, width |-> endPixel - startPixel],
                    !.groups[g].startHandle.x = startPixel,
                    !.groups[g].endHandle.x = endPixel - PX(HandleSize)]

RECURSIVE renderSegmentGroup(_, _, _)

\* a commit of the start time that emits no event
commitStartSilently(w1, g, id, newTime) ==
  IF w1.error = "none" /\ startCommits(newTime, w1.segs[id])
  THEN [w1 EXCEPT !.segs[id].startTime = newTime,
                  !.written = Append(@, [segment |-> id, isStart |-> TRUE])]
  ELSE w1

\* lines 1244-1247: w1 is the state after the clamps, newTime the clamped time
commitStart(w1, g, id, newTime) ==
  IF w1.error = "none" /\ startCommits(newTime, w1.segs[id])
  THEN [w1 EXCEPT !.segs[id].startTime = newTime,
                  !.written = Append(@, [segment |-> id, isStart |-> TRUE]),
                  !.emitted = Append(@, draggedEvent(g, id, TRUE))]
  ELSE w1

\* line 1237: the new time is the left neighbour's end, read after its render
clampToLeft(w1, g, id, left) ==
  commitStart(w1, g, id, w1.segs[w1.groups[left].segment].endTime)

\* lines 1234-1241: the left neighbour is at or past the candidate, or is not
touchLeft(w, g, id, left, cand, fuel) ==
  IF touchesLeft(w.segs[w.groups[left].segment].endTime, cand)
  THEN clampToLeft(
         renderSegmentGroup([w EXCEPT !.groups[left].isSegmentTouching = TRUE],
                            left, fuel - 1),
         g, id, left)
  ELSE commitStart([w EXCEPT !.groups[left].isSegmentTouching = FALSE], g, id, cand)

\* lines 1230-1247: the start handle is being dragged; cand is the time under
\* the pointer (lines 1226-1228)
dragStartHandle(w, g, id, cand, fuel) ==
  IF startAtMinimum(cand, w.segs[id].endTime)
  THEN commitStart(w, g, id, w.segs[id].endTime - MinSegmentDuration)
  ELSE IF w.groups[g].neighbours.left # NoGroup
  THEN touchLeft(w, g, id, w.groups[g].neighbours.left, cand, fuel)
  ELSE commitStart(w, g, id, cand)

\* lines 1270-1273
commitEnd(w1, g, id, newTime) ==
  IF w1.error = "none" /\ endCommits(newTime, w1.segs[id])
  THEN [w1 EXCEPT !.segs[id].endTime = newTime,
                  !.written = Append(@, [segment |-> id, isStart |-> FALSE]),
                  !.emitted = Append(@, draggedEvent(g, id, FALSE))]
  ELSE w1

\* line 1263: the new time is the right neighbour's start, read after its render
clampToRight(w1, g, id, right) ==
  commitEnd(w1, g, id, w1.segs[w1.groups[right].segment].startTime)

\* lines 1260-1267: the right neighbour is at or before the candidate, or is not
touchRight(w, g, id, right, cand, fuel) ==
  IF touchesRight(w.segs[w.groups[right].segment].startTime, cand)
  THEN clampToRight(
         renderSegmentGroup([w EXCEPT !.groups[right].isSegmentTouching = TRUE],
                            right, fuel - 1),
         g, id, right)
  ELSE commitEnd([w EXCEPT !.groups[right].isSegmentTouching = FALSE], g, id, cand)

\* lines 1256-1273: the end handle is being dragged; cand is the time under
\* the pointer (lines 1252-1254)
dragEndHandle(w, g, id, cand, fuel) ==
  IF endAtMinimum(cand, w.segs[id].startTime)
  THEN commitEnd(w, g, id, w.segs[id].startTime + MinSegmentDuration)
  ELSE IF w.groups[g].neighbours.right # NoGroup
  THEN touchRight(w, g, id, w.groups[g].neighbours.right, cand, fuel)
  ELSE commitEnd(w, g, id, cand)

\* lines 1226-1228: the time under the pointer, for a dragged start handle
startCandidate(w, g) ==
  pixelsToTime(w.frameOffset + w.mouseX - w.groups[g].startHandle.mouseStartDiffX)

\* lines 1252-1254: the time under the pointer, for a dragged end handle
endCandidate(w, g) ==
  pixelsToTime(w.frameOffset + w.mouseX + PX(HandleSize)
               - w.groups[g].endHandle.mouseStartDiffX)

\* SegmentsLayer.prototype._renderSegmentGroup.  An undefined segmentGroup
\* makes line 1201 (segmentGroup.segment) raise a TypeError; fuel counts the
\* nested calls left before the call stack overflows.
renderSegmentGroup(w, g, fuel) ==
  IF w.error # "none" THEN w
  ELSE IF g = NoGroup THEN [w EXCEPT !.error = "TypeError"]
  ELSE IF fuel = 0 THEN [w EXCEPT !.error = "RangeError"]
  ELSE layout(
         IF w.groups[g].startHandle.isMouseDragging
         THEN IF w.mouseSet /\ w.mouseX > 0
              THEN dragStartHandle(w, g, w.groups[g].segment, startCandidate(w, g), fuel)
              ELSE w
         ELSE IF w.groups[g].endHandle.isMouseDragging
         THEN IF w.mouseSet /\ w.mouseX <= Width
              THEN dragEndHandle(w, g, w.groups[g].segment, endCandidate(w, g), fuel)
              ELSE w
         ELSE w,
         g)

\* ------------------------------------------------------------ lines 1289-1383
\* the colours: rest "#313335" and active "#78A9D7" (lines 1118-1119), touching
\* "#de9866" (line 1323), focused "#66DE9D" (line 1330)
\* the largest r in lo..hi with r * r <= v
RECURSIVE isqrtBetween(_, _, _)
isqrtBetween(lo, hi, v) ==
  IF lo >= hi THEN lo
  ELSE IF ((lo + hi + 1) \div 2) * ((lo + hi + 1) \div 2) <= v
       THEN isqrtBetween((lo + hi + 1) \div 2, hi, v)
       ELSE isqrtBetween(lo, ((lo + hi + 1) \div 2) - 1, v)

\* a length of px pixels, in the unit in which activeRange pixels make opacity 1
Faded(px) == px * (Opacity(100) \div activeRange)

\* Utils.getDistance, for a difference of dx half pixels and dy pixels, in the
\* unit of Faded; distances past 200 pixels are reported as 200 pixels, which
\* the render cannot tell apart (the handle opacity is at its floor from 80)
getDistance(dx, dy) ==
  isqrtBetween(0, Faded(200), (Faded(1) * Faded(1) * (dx * dx + 4 * dy * dy)) \div 4)

\* lines 1213-1215
isSegmentDragging(w, grp) ==
  w.isMouseDragging /\ (grp.startHandle.isMouseDragging \/ grp.endHandle.isMouseDragging)

isSegmentActive(w, grp) == Truthy(grp.isMouseOver) \/ isSegmentDragging(w, grp)

\* line 1209: an undefined _visibleSegmentsCount compares false
doEffects(w) == w.visibleSegmentsCount >= 0 /\ w.visibleSegmentsCount <= EffectsLimit

\* line 1289: x && y
pointerGiven(w) == w.mouseSet /\ w.mouseX # 0 /\ w.mouseY # 0

\* lines 1204 and 1299-1308
startHandleDist(w, grp) ==
  IF pointerGiven(w) /\ Truthy(grp.isMouseOver) /\ doEffects(w)
  THEN IF Truthy(grp.startHandle.isMouseOver) THEN 0
       ELSE getDistance(IF w.mouseX < grp.startHandle.x THEN 0
                        ELSE w.mouseX - grp.startHandle.x,
                        IF w.mouseY < HandleSize THEN 0 ELSE w.mouseY - HandleSize)
  ELSE Faded(200)

\* lines 1205 and 1310-1317
endHandleDist(w, grp) ==
  IF pointerGiven(w) /\ Truthy(grp.isMouseOver) /\ doEffects(w)
  THEN IF Truthy(grp.endHandle.isMouseOver) THEN 0
       ELSE getDistance(IF w.mouseX > grp.endHandle.x THEN 0
                        ELSE w.mouseX - grp.endHandle.x,
                        IF w.mouseY < HandleSize THEN 0 ELSE w.mouseY - HandleSize)
  ELSE Faded(200)

\* a fill that puts the touching colour above the focus colour
fillColorTouchingFirst(w, grp, seg) ==
  IF w.isMouseDragging /\ grp.isSegmentTouching THEN "#de9866"
  ELSE IF Truthy(seg.isFocused) THEN "#66DE9D"
  ELSE IF Truthy(grp.isMouseOver) THEN "#78A9D7"
  ELSE "#313335"

\* lines 1320-1331
fillColor(w, grp, seg) ==
  IF Truthy(seg.isFocused) THEN "#66DE9D"
  ELSE IF w.isMouseDragging /\ grp.isSegmentTouching THEN "#de9866"
  ELSE IF Truthy(grp.isMouseOver) THEN "#78A9D7"
  ELSE "#313335"

\* lines 1206-1207, 1290-1297 and 1322-1325: the baseline, raised towards the
\* maximum as the measured distance (<<>> while undefined) falls under three
\* times activeRange, where Math.min(1, distance / 300) is distance / 300; a
\* touching group under a drag sets it aside
highlightRectOpacity(w, grp, distance) ==
  IF w.isMouseDragging /\ grp.isSegmentTouching THEN Opacity(30)
  ELSE IF pointerGiven(w) /\ distance # <<>> /\ doEffects(w)
          /\ distance[1] < PX(activeRange * 3)
  THEN Opacity(50) - (distance[1] * (Opacity(50) - Opacity(15))) \div PX(activeRange * 3)
  ELSE Opacity(15)

\* lines 1343-1347
paintHighlight(w, grp, seg, distance) ==
  [fill |-> fillColor(w, grp, seg),
   opacity |-> IF isSegmentActive(w, grp) \/ Truthy(seg.isFocused)
               THEN Opacity(50) - Opacity(25)
               ELSE IF highlightRectOpacity(w, grp, distance) < Opacity(50)
               THEN highlightRectOpacity(w, grp, distance)
               ELSE Opacity(50)]

\* lines 1333 and 1336-1338
startHandleOpacity(w, grp) ==
  IF doEffects(w)
  THEN IF ~isSegmentActive(w, grp) THEN 0
       ELSE IF Opacity(100) - startHandleDist(w, grp) < Opacity(20) THEN Opacity(20)
       ELSE Opacity(100) - startHandleDist(w, grp)
  ELSE IF Truthy(grp.startHandle.isMouseOver) THEN Opacity(50) ELSE 0

\* lines 1334 and 1339-1341: line 1334 reads startHandle.isMouseOver
endHandleOpacity(w, grp) ==
  IF doEffects(w)
  THEN IF ~isSegmentActive(w, grp) THEN 0
       ELSE IF Opacity(100) - endHandleDist(w, grp) < Opacity(20) THEN Opacity(20)
       ELSE Opacity(100) - endHandleDist(w, grp)
  ELSE IF Truthy(grp.startHandle.isMouseOver) THEN Opacity(50) ELSE 0

\* lines 1355-1376, for one handle
paintHandle(w, grp, seg, handle, handleOpacity) ==
  [visible |-> Truthy(grp.isMouseOver) \/ Truthy(seg.isFocused) \/ isSegmentDragging(w, grp),
   opacity |-> IF isSegmentDragging(w, grp) \/ handle.isMouseDragging \/ Truthy(seg.isFocused)
               THEN Opacity(50) ELSE handleOpacity,
   fill |-> IF Truthy(seg.isFocused) THEN "#66DE9D"
            ELSE IF Truthy(handle.isMouseOver) THEN "#78A9D7"
            ELSE "#313335"]

\* lines 1289-1383 of _renderSegmentGroup: the attributes the shapes of the
\* group are given; the time labels are given none
paint(w, grp, seg, shape) ==
  IF grp.highlightRect.width > PX(HandleSize) + PX(HandleSize)
  THEN [shape EXCEPT
          !.highlightRect = paintHighlight(w, grp, seg, shape.highlightRectDistance),
          !.startHandle = paintHandle(w, grp, seg, grp.startHandle, startHandleOpacity(w, grp)),
          !.endHandle = paintHandle(w, grp, seg, grp.endHandle, endHandleOpacity(w, grp))]
  ELSE [shape EXCEPT
          !.highlightRect = paintHighlight(w, grp, seg, shape.highlightRectDistance),
          !.startHandle.visible = FALSE,
          !.endHandle.visible = FALSE]

\* lines 1059-1061 of emitEvents, for a pointer at x (half pixels)
highlightRectDistance(x, rect) ==
  IF x <= rect.x THEN rect.x - x ELSE x - (rect.x + rect.width)

\* ------------------------------------------------------------ events
hoverEvent(name, g, id, isInHandle) ==
  [name |-> name, group |-> g, segment |-> id, isInHandle |-> isInHandle]

\* peaks.emit of a segmentGroup.* event: the layer's own handler (lines
\* 994-1012) renders the group before emit returns
emitHover(w, name, g, isInHandle) ==
  IF w.error # "none" THEN w
  ELSE renderSegmentGroup(
         [w EXCEPT !.emitted = Append(@, hoverEvent(name, g, w.groups[g].segment, isInHandle))],
         g, MaxRenderDepth)

\* a body hit that takes in the highlight's left edge
bodyHitLeftInclusive(over, x, left, endPixel) == over /\ x >= left /\ x <= endPixel

\* a body hit that does not ask for the pointer to be over the layer
bodyHitOffLayer(over, x, left, endPixel) == x > left /\ x <= endPixel

\* line 1063: the pointer is over the body of the segment
bodyHit(over, x, left, endPixel) == over /\ x > left /\ x <= endPixel

\* a start handle hit that does not ask for the pointer to be over the body
startHandleHitOffBody(bodyOver, x, y, left) ==
  x <= left + PX(EdgeTolerance) \/ (x <= left + PX(HandleSize) /\ y <= HandleSize)

\* lines 1088-1091: the pointer is over the start handle
startHandleHit(bodyOver, x, y, left) ==
  bodyOver /\ (x <= left + PX(EdgeTolerance) \/
               (x <= left + PX(HandleSize) /\ y <= HandleSize))

\* lines 1101-1104: the pointer is over the end handle
endHandleHit(bodyOver, x, y, endPixel) ==
  bodyOver /\ (x >= endPixel - PX(EdgeTolerance) \/
               (x >= endPixel - PX(HandleSize) /\ y <= HandleSize))

\* the handle's isMouseOver is given the value t
setHandleOver(grp, isStart, t) ==
  IF isStart THEN [grp EXCEPT !.startHandle.isMouseOver = t]
  ELSE [grp EXCEPT !.endHandle.isMouseOver = t]

handleOver(grp, isStart) ==
  IF isStart THEN grp.startHandle.isMouseOver ELSE grp.endHandle.isMouseOver

\* lines 1074-1084: the pointer left the body while it was over a handle
leaveHandle(w, g, isStart) ==
  IF w.error = "none" /\ Truthy(handleOver(w.groups[g], isStart))
  THEN emitHover([w EXCEPT !.groups[g] = setHandleOver(@, isStart, "false")],
                 "segmentGroup.handle.mouseleave", g, isStart)
  ELSE w

\* lines 1066-1086
emitBody(w, g, isSegmentMouseOver) ==
  IF Tri(isSegmentMouseOver) = w.groups[g].isMouseOver THEN w
  ELSE IF isSegmentMouseOver
  THEN emitHover([w EXCEPT !.groups[g].isMouseOver = "true"],
                 "segmentGroup.mouseenter", g, FALSE)
  ELSE leaveHandle(
         leaveHandle(
           emitHover([w EXCEPT !.groups[g].isMouseOver = "false"],
                     "segmentGroup.mouseleave", g, FALSE),
           g, TRUE),
         g, FALSE)

\* lines 1093-1100 and 1106-1114
emitHandle(w, g, isStart, over) ==
  IF w.error # "none" \/ Tri(over) = handleOver(w.groups[g], isStart) THEN w
  ELSE emitHover([w EXCEPT !.groups[g] = setHandleOver(@, isStart, Tri(over))],
                 "segmentGroup.handle.mouse" \o (IF over THEN "enter" ELSE "leave"),
                 g, isStart)

\* lines 1088-1114.  highlightRect.x() is read again at line 1089, after the
\* handlers of the events emitted so far have rendered the group; endPixel was
\* read once, at line 1057.
emitHandles(w1, g, isSegmentMouseOver, x, y, endPixel) ==
  emitHandle(
    emitHandle(w1, g, TRUE,
               startHandleHit(isSegmentMouseOver, x, y, w1.groups[g].highlightRect.x)),
    g, FALSE, endHandleHit(isSegmentMouseOver, x, y, endPixel))

\* lines 1057-1064: the pointer is over the segment's body
bodyOver(w, g) ==
  LET rect == w.groups[g].highlightRect
  IN w.mouseSet /\ bodyHit(w.isMouseOver, w.mouseX, rect.x, rect.x + rect.width)

\* segmentGroup.emitEvents (lines 1049-1115)
emitEvents(w, g) ==
  IF w.error # "none" THEN w
  ELSE emitHandles(emitBody(w, g, bodyOver(w, g)), g, bodyOver(w, g), w.mouseX, w.mouseY,
                   w.groups[g].highlightRect.x + w.groups[g].highlightRect.width)

\* ------------------------------------------------------------ the registry
\* SegmentsLayer.prototype._addSegmentGroup, with _createSegmentGroup (which
\* renders the new group at line 1150).  w.full reports that the model has no
\* object left to give out.
addSegmentGroup(w, id) ==
  IF w.error # "none" THEN w
  ELSE IF FreeRefs(w) = {} THEN [w EXCEPT !.full = TRUE]
  ELSE
    LET r == CHOOSE f \in FreeRefs(w) : \A o \in FreeRefs(w) : f <= o
        w1 == renderSegmentGroup([w EXCEPT !.groups[r] = NewGroup(id)], r, MaxRenderDepth)
    IN [w1 EXCEPT !.groups[r].attached = TRUE,
                  !.refOf[id] = r,
                  !.keys = IF \E i \in 1..Len(@) : @[i] = id THEN @ ELSE Append(@, id)]

\* SegmentsLayer.prototype._findOrAddSegmentGroup
findOrAddSegmentGroup(w, id) ==
  IF w.refOf[id] = NoGroup THEN addSegmentGroup(w, id) ELSE w

\* a removal that destroys the group and keeps its entry in _segmentGroups
removeSegmentKeepsEntry(w, id) ==
  IF w.refOf[id] = NoGroup THEN w
  ELSE [w EXCEPT !.groups[w.refOf[id]].attached = FALSE]

\* a removal that destroys the group a second time
removeSegmentDestroysTwice(w, id) ==
  IF w.refOf[id] = NoGroup THEN w
  ELSE [w EXCEPT !.groups[w.refOf[id]].attached = FALSE,
                 !.destroyed = @ \o <<w.refOf[id], w.refOf[id]>>,
                 !.refOf[id] = NoGroup,
                 !.keys = SelectSeq(@, LAMBDA k : k # id)]

\* SegmentsLayer.prototype._removeSegment
removeSegment(w, id) ==
  LET g == w.refOf[id]
  IN IF g = NoGroup THEN w
     ELSE [w EXCEPT !.groups[g].attached = FALSE,
                    !.destroyed = Append(@, g),
                    !.refOf[id] = NoGroup,
                    !.keys = SelectSeq(@, LAMBDA k : k # id)]

\* SegmentsLayer.prototype._removeInvisibleSegments: for-in over _segmentGroups
RECURSIVE removeInvisibleSegments(_, _, _, _)
removeInvisibleSegments(w, ks, startTime, endTime) ==
  IF ks = <<>> THEN w
  ELSE LET id == Head(ks)
           w1 == IF w.refOf[id] # NoGroup /\ ~isVisible(w.segs[id], startTime, endTime)
                 THEN [removeSegment(w, id) EXCEPT !.count = @ + 1] ELSE w
       IN removeInvisibleSegments(w1, Tail(ks), startTime, endTime)

\* lines 1456-1458: the group found or added is rendered and emits its events
updateGroup(w1, id) ==
  IF w1.refOf[id] = NoGroup THEN w1
  ELSE emitEvents(renderSegmentGroup(w1, w1.refOf[id], MaxRenderDepth), w1.refOf[id])

\* the forEach of updateSegments (lines 1453-1460)
RECURSIVE updateEach(_, _)
updateEach(w, segments) ==
  IF segments = <<>> \/ w.error # "none" THEN w
  ELSE updateEach(updateGroup(findOrAddSegmentGroup(w, Head(segments)), Head(segments)),
                  Tail(segments))

\* line 1467: the groups of the segments that left the range are removed
removeInvisible(w1, startTime, endTime) ==
  IF w1.error # "none" THEN w1
  ELSE removeInvisibleSegments(w1, w1.keys, startTime, endTime)

\* lines 1446-1460: count starts as the number of segments in the range
updateVisible(w, segments) ==
  updateEach([w EXCEPT !.visibleSegmentsCount = Len(segments),
                       !.count = Len(segments)], segments)

\* lines 1465-1467: the layer is drawn when count, the number of segments in
\* the range plus the number of groups removed, is positive
drawWhenCounted(w2) ==
  IF w2.error = "none" /\ w2.count > 0 THEN [w2 EXCEPT !.redrawn = TRUE] ELSE w2

\* SegmentsLayer.prototype.updateSegments
updateSegments(w, startTime, endTime) ==
  IF w.error # "none" THEN w
  ELSE drawWhenCounted(
         removeInvisible(updateVisible(w, find(w, startTime, endTime)), startTime, endTime))

\* WaveformZoomView.prototype._updateWaveform; frameOffset in whole pixels
updateWaveform(w, offset) ==
  LET short == PX(PixelLength) < Width
      upperLimit == IF short THEN Width ELSE PX(PixelLength) - Width
      rounded == IF offset = NaN THEN NaN ELSE PX(offset)
      newOffset == clamp(IF short THEN 0 ELSE rounded, 0, upperLimit)
      w1 == [w EXCEPT !.frameOffset = newOffset]
  IN updateSegments(w1, frameStartTime(w1), frameEndTime(w1))

\* SegmentsLayer.prototype._updateVisibleSegments; pos is the pointer position
\* Utils.getRelativePointerPosition reads from the stage
updateVisibleSegments(w, dontFindCursor, pos) ==
  LET w1 == IF dontFindCursor THEN w
            ELSE [w EXCEPT !.mouseSet = TRUE, !.mouseX = PX(pos.x), !.mouseY = pos.y]
  IN updateSegments(w1, frameStartTime(w1), frameEndTime(w1))

IndexOf(seq, id) ==
  IF \E i \in 1..Len(seq) : seq[i] = id
  THEN CHOOSE i \in 1..Len(seq) : seq[i] = id /\ \A j \in 1..(i - 1) : seq[j] # id
  ELSE 0

\* SegmentsLayer.prototype._findSegmentNeighbours.  The index is 1-based here
\* (0 when the segment is not in the result, -1 in the source).
findSegmentNeighbours(w, id) ==
  LET segments == find(w, frameStartTime(w), frameEndTime(w))
      segmentIndex == IndexOf(segments, id)
  IN [left  |-> IF segmentIndex > 1 THEN w.refOf[segments[segmentIndex - 1]] ELSE NoGroup,
      right |-> IF segmentIndex < Len(segments)
                THEN w.refOf[segments[segmentIndex + 1]] ELSE NoGroup]

\* ------------------------------------------------------------ handlers
\* lines 796-803: the group is added when the segment is in the window, and
\* the render at line 802 is given segmentGroup, the value read at line 780
addAndRender(w, id, segmentGroup) ==
  IF isVisible(w.segs[id], frameStartTime(w), frameEndTime(w))
  THEN renderSegmentGroup(addSegmentGroup(w, id), segmentGroup, MaxRenderDepth)
  ELSE w

\* the handler of segments.update (lines 778-805)
onSegmentsUpdate(w, id) ==
  IF w.error # "none" THEN w
  ELSE IF w.refOf[id] = NoGroup THEN addAndRender(w, id, NoGroup)
  ELSE renderSegmentGroup(w, w.refOf[id], MaxRenderDepth)

\* Segment.prototype.update({ isFocused }): the store sets the field and emits
\* segments.update
segmentUpdateFocus(w, id, isFocused) ==
  onSegmentsUpdate([w EXCEPT !.segs[id].isFocused = isFocused], id)

\* the handler of segments.add (lines 807-821)
RECURSIVE addVisible(_, _)
addVisible(w, segments) ==
  IF segments = <<>> THEN w
  ELSE LET id == Head(segments)
           w1 == IF isVisible(w.segs[id], frameStartTime(w), frameEndTime(w))
                 THEN addSegmentGroup(w, id) ELSE w
       IN addVisible(w1, Tail(segments))

onSegmentsAdd(w, segments) ==
  updateSegments(addVisible(w, segments), frameStartTime(w), frameEndTime(w))

\* the handler of mouseenter (lines 876-879)
onMouseEnter(w, pos) ==
  updateVisibleSegments([w EXCEPT !.isMouseOver = TRUE], FALSE, pos)

\* the handler of mousemove (lines 881-883)
onMouseMove(w, pos) == updateVisibleSegments(w, FALSE, pos)

\* the handler of mouseleave (lines 885-905)
onMouseLeave(w) ==
  LET w1 == [w EXCEPT !.isMouseOver = FALSE, !.mouseSet = TRUE,
                      !.mouseX = Width \div 2, !.mouseY = LeaveSentinelY]
      redrawLayer ==
        \E i \in 1..Len(w1.keys) :
          LET segmentGroup == w1.groups[w1.refOf[w1.keys[i]]]
          IN \/ Truthy(segmentGroup.isMouseOver)
             \/ Truthy(segmentGroup.startHandle.isMouseOver)
             \/ Truthy(segmentGroup.endHandle.isMouseOver)
  IN IF redrawLayer THEN updateVisibleSegments(w1, TRUE, [x |-> 0, y |-> 0]) ELSE w1

\* a handle that is engaged wherever the pointer is
overHandleAnywhere(handle) == TRUE

\* lines 923 and 932: the handle is engaged when the pointer is over it
overHandle(handle) == Truthy(handle.isMouseOver)

mousedownEvent(g, id, time) ==
  [name |-> "zoomview.mousedown", group |-> g, segment |-> id, time |-> time]

\* lines 923-928: the start handle is engaged
engageStart(w, g) ==
  IF overHandle(w.groups[g].startHandle)
  THEN [w EXCEPT !.groups[g].neighbours = findSegmentNeighbours(w, w.groups[g].segment),
                 !.groups[g].startHandle.isMouseDragging = TRUE,
                 !.groups[g].startHandle.mouseStartDiffX =
                    w.mouseX - w.groups[g].startHandle.x]
  ELSE w

\* lines 932-937: the end handle is engaged
engageEnd(w, g) ==
  IF overHandle(w.groups[g].endHandle)
  THEN [w EXCEPT !.groups[g].neighbours = findSegmentNeighbours(w, w.groups[g].segment),
                 !.groups[g].endHandle.isMouseDragging = TRUE,
                 !.groups[g].endHandle.mouseStartDiffX =
                    w.mouseX - w.groups[g].endHandle.x - PX(1)]
  ELSE w

\* lines 939-943: the segment is focused when the pointer is over its body
focusSegment(w, g) ==
  IF w.groups[g].isMouseOver # w.segs[w.groups[g].segment].isFocused
  THEN segmentUpdateFocus(w, w.groups[g].segment, w.groups[g].isMouseOver)
  ELSE w

\* lines 945-952
emitMouseDown(w, g, clickedTime) ==
  IF w.error = "none" /\ Truthy(w.groups[g].isMouseOver)
  THEN [w EXCEPT !.targettedSegmentGroup = TRUE,
                 !.emitted = Append(@, mousedownEvent(g, w.groups[g].segment, clickedTime))]
  ELSE w

\* lines 954-957: redrawSegment is set at lines 927, 936 and 951; the handler
\* does not change the three flags it was set on
redrawPressed(w, g) ==
  IF \/ overHandle(w.groups[g].startHandle)
     \/ overHandle(w.groups[g].endHandle)
     \/ Truthy(w.groups[g].isMouseOver)
  THEN renderSegmentGroup(w, g, MaxRenderDepth)
  ELSE w

\* one turn of the loop of the mousedown handler (lines 917-958)
mouseDownGroup(w, key, clickedTime) ==
  IF w.refOf[key] = NoGroup THEN [w EXCEPT !.error = "TypeError"]
  ELSE redrawPressed(
         emitMouseDown(
           focusSegment(engageEnd(engageStart(w, w.refOf[key]), w.refOf[key]),
                        w.refOf[key]),
           w.refOf[key], clickedTime),
         w.refOf[key])

RECURSIVE mouseDownLoop(_, _, _)
mouseDownLoop(w, ks, clickedTime) ==
  IF ks = <<>> \/ w.error # "none" THEN w
  ELSE mouseDownLoop(mouseDownGroup(w, Head(ks), clickedTime), Tail(ks), clickedTime)

\* lines 960-962
emitUntargetted(w1, clickedTime) ==
  IF w1.error = "none" /\ ~w1.targettedSegmentGroup
  THEN [w1 EXCEPT !.emitted = Append(@, mousedownEvent(NoGroup, 0, clickedTime))]
  ELSE w1

\* the handler of mousedown (lines 907-967); frameStartOffset + _mouseX is NaN
\* while _mouseX is undefined
onMouseDown(w) ==
  LET clickedTime == pixelsToTime(IF w.mouseSet /\ w.frameOffset # NaN
                                  THEN w.frameOffset + w.mouseX ELSE NaN)
  IN emitUntargetted(
       mouseDownLoop([w EXCEPT !.isMouseDragging = TRUE], w.keys, clickedTime),
       clickedTime)

\* a release that forgets the end handle
releaseStartHandleOnly(grp) ==
  [grp EXCEPT !.startHandle.isMouseDragging = FALSE]

\* lines 981-982: both handles of the group stop being dragged
releaseHandles(grp) ==
  [grp EXCEPT !.startHandle.isMouseDragging = FALSE,
              !.endHandle.isMouseDragging = FALSE]

\* lines 980-985
releaseGroup(w, g) ==
  IF w.groups[g].startHandle.isMouseDragging \/ w.groups[g].endHandle.isMouseDragging
  THEN renderSegmentGroup([w EXCEPT !.groups[g] = releaseHandles(@)], g, MaxRenderDepth)
  ELSE w

\* lines 986-990
clearTouching(w1, g) ==
  IF w1.error = "none" /\ w1.groups[g].isSegmentTouching
  THEN renderSegmentGroup([w1 EXCEPT !.groups[g].isSegmentTouching = FALSE],
                          g, MaxRenderDepth)
  ELSE w1

\* one turn of the loop of the mouseup handler (lines 975-991)
mouseUpGroup(w, key) ==
  IF w.refOf[key] = NoGroup THEN [w EXCEPT !.error = "TypeError"]
  ELSE clearTouching(releaseGroup(w, w.refOf[key]), w.refOf[key])

RECURSIVE mouseUpLoop(_, _)
mouseUpLoop(w, ks) ==
  IF ks = <<>> \/ w.error # "none" THEN w
  ELSE mouseUpLoop(mouseUpGroup(w, Head(ks)), Tail(ks))

\* the handler of mouseup on window (lines 969-992)
onMouseUp(w) ==
  mouseUpLoop([w EXCEPT !.isMouseDragging = FALSE,
                        !.emitted = Append(@, [name |-> "zoomview.mouseup"])],
              w.keys)

\* the handler of segments.remove (lines 823-829)
RECURSIVE onSegmentsRemove(_, _)
onSegmentsRemove(w, segments) ==
  IF segments = <<>> THEN w
  ELSE onSegmentsRemove(removeSegment(w, Head(segments)), Tail(segments))

\* Konva's Container.removeChildren(): a child is taken off the layer and is
\* not destroyed
removeChild(grp) == [grp EXCEPT !.attached = FALSE]

\* the handler of segments.remove_all (lines 831-836): removeChildren() takes
\* every child off the layer, the mouse capturing rectangle included
onSegmentsRemoveAll(w) ==
  [w EXCEPT !.groups = [r \in Refs |-> removeChild(w.groups[r])],
            !.capturing = FALSE,
            !.refOf = [id \in SegIds |-> NoGroup],
            !.keys = <<>>]

\* lines 839-845: no segment is selected
deselect(w) ==
  updateVisibleSegments([w EXCEPT !.isMouseOver = FALSE, !.mouseSet = TRUE,
                                  !.mouseX = Width \div 2,
                                  !.mouseY = DeselectSentinelY],
                        TRUE, [x |-> 0, y |-> 0])

\* lines 847-854: the selected segment's group is given the pointer, every
\* other group loses it
markSelected(w, id) ==
  [w EXCEPT !.groups = [r \in Refs |->
     IF \E k \in SegIds : w.refOf[k] = r
     THEN [w.groups[r] EXCEPT !.isMouseOver = Tri(w.refOf[id] = r)]
     ELSE w.groups[r]]]

\* peaks.emit('user_scroll.zoomview', offset): the view's handler
\* (waveform-shape.js, lines 363-365) runs before emit returns
emitUserScroll(w, offset) ==
  updateWaveform([w EXCEPT !.emitted = Append(@, [name |-> "user_scroll.zoomview",
                                                  offset |-> offset])],
                 offset)

\* lines 856-873: the pointer is put on the middle of the segment; x and width
\* are the segment's start and width in half pixels
pointAtSegment(w, x, width) ==
  IF x > w.frameOffset + Width \/ width + x < w.frameOffset
  THEN emitUserScroll([w EXCEPT !.isMouseOver = TRUE, !.mouseSet = TRUE,
                                !.mouseX = PX(SelectMargin) + width \div 2,
                                !.mouseY = Height \div 2],
                      (x - PX(SelectMargin)) \div 2)
  ELSE updateVisibleSegments([w EXCEPT !.isMouseOver = TRUE, !.mouseSet = TRUE,
                                       !.mouseX = x - w.frameOffset + width \div 2,
                                       !.mouseY = Height \div 2],
                             TRUE, [x |-> 0, y |-> 0])

\* the handler of segments.select (lines 838-874); NoSegment is a falsy argument
onSegmentsSelect(w, id) ==
  IF id = NoSegment THEN deselect(w)
  ELSE pointAtSegment(markSelected(w, id), timeToPixels(w.segs[id].startTime),
                      timeToPixels(w.segs[id].endTime)
                        - timeToPixels(w.segs[id].startTime))

\* ------------------------------------------------------------ the state machine
SegsOf(cfg) ==
  [id \in SegIds |-> [startTime |-> cfg[id].startTime, endTime |-> cfg[id].endTime,
                      isFocused |-> "false", editable |-> TRUE]]

\* the state after construction, with the host's Segment objects among ss
InitWith(ss) ==
  /\ segs \in ss
  /\ store = <<>>
  /\ frameOffset = 0
  /\ mouseSet = FALSE /\ mouseX = 0 /\ mouseY = 0
  /\ isMouseOver = FALSE
  /\ isMouseDragging = FALSE
  /\ groups = [r \in Refs |-> FreeGroup]
  /\ keys = <<>>
  /\ refOf = [id \in SegIds |-> NoGroup]
  /\ visibleSegmentsCount = 0 - 1
  /\ emitted = <<>>
  /\ error = "none"
  /\ handled = "init"
  /\ mouseDowns = 0
  /\ hostUpdates = 0
  /\ capturing = TRUE
  /\ pointerIn = FALSE
  /\ storeEvents = 0
  /\ destroyed = <<>>
  /\ redrawn = FALSE
  /\ written = <<>>
  /\ segs0 = segs
  /\ pressTimes = segs
  /\ shapes = [r \in Refs |-> NewShape]
  /\ converted = [from |-> "none", given |-> <<>>, there |-> <<>>, back |-> <<>>]
  /\ amplitude = [view |-> [type |-> "number", value |-> 10],
                  shape |-> [type |-> "number", value |-> 10],
                  given |-> [type |-> "undefined", value |-> 0]]

Init == InitWith({SegsOf(cfg) : cfg \in StoreConfigs})

\* the state a handler leaves behind
Commit(w0, name) ==
  LET w == collect(w0)
  IN /\ ~w0.full
     /\ segs' = w.segs
     /\ store' = w.store
     /\ frameOffset' = w.frameOffset
     /\ mouseSet' = w.mouseSet /\ mouseX' = w.mouseX /\ mouseY' = w.mouseY
     /\ isMouseOver' = w.isMouseOver
     /\ isMouseDragging' = w.isMouseDragging
     /\ groups' = w.groups
     /\ keys' = w.keys
     /\ refOf' = w.refOf
     /\ visibleSegmentsCount' = w.visibleSegmentsCount
     /\ emitted' = w.emitted
     /\ error' = w.error
     /\ handled' = name
     /\ capturing' = w.capturing
     /\ destroyed' = w.destroyed
     /\ redrawn' = w.redrawn
     /\ written' = w.written
     /\ segs0' = segs0
     /\ shapes' = shapes
     /\ converted' = converted
     /\ amplitude' = amplitude

\* the host adds its segments to the store: segments.add
SegmentsAdd ==
  /\ store = <<>>
  /\ Commit(onSegmentsAdd([World EXCEPT !.store = <<1, 2>>], <<1, 2>>), "segments.add")
  /\ UNCHANGED <<mouseDowns, hostUpdates, pressTimes, pointerIn, storeEvents>>

\* The layer's pointer handlers run when the pointer is over a listening shape
\* of the layer: the mouse capturing rectangle (lines 756-761), which
\* updateSegments gives the layer's size, or the highlight rectangle of a
\* group on the layer (handles and labels do not listen).  x in half pixels.
Captured(x) ==
  \/ capturing
  \/ \E r \in Refs : /\ groups[r].live /\ groups[r].attached
                      /\ groups[r].highlightRect.x <= x
                      /\ x < groups[r].highlightRect.x + groups[r].highlightRect.width

\* the pointer enters the layer
MouseEnter ==
  /\ ~pointerIn
  /\ \E x \in PointerXs, y \in PointerYs :
       /\ Captured(PX(x))
       /\ Commit(onMouseEnter(World, [x |-> x, y |-> y]), "mouseenter")
  /\ pointerIn' = TRUE
  /\ UNCHANGED <<mouseDowns, hostUpdates, pressTimes, storeEvents>>

\* the pointer moves inside the layer
MouseMove ==
  /\ pointerIn
  /\ \E x \in PointerXs, y \in PointerYs :
       /\ Captured(PX(x))
       /\ Commit(onMouseMove(World, [x |-> x, y |-> y]), "mousemove")
  /\ UNCHANGED <<mouseDowns, hostUpdates, pressTimes, pointerIn, storeEvents>>

\* the pointer leaves the layer
MouseLeave ==
  /\ pointerIn
  /\ Commit(onMouseLeave(World), "mouseleave")
  /\ pointerIn' = FALSE
  /\ UNCHANGED <<mouseDowns, hostUpdates, pressTimes, storeEvents>>

\* a button goes down inside the layer
MouseDown ==
  /\ pointerIn
  /\ Captured(mouseX)
  /\ mouseDowns < MaxMouseDowns
  /\ Commit(onMouseDown(World), "mousedown")
  /\ mouseDowns' = mouseDowns + 1
  /\ pressTimes' = segs
  /\ UNCHANGED <<hostUpdates, pointerIn, storeEvents>>

\* a button goes down on the layer before the pointer, which was over the
\* layer when the view was built, has moved: no mouseenter or mousemove has
\* been delivered yet
MouseDownUnmoved ==
  /\ ~pointerIn
  /\ ~mouseSet
  /\ \E x \in PointerXs : Captured(PX(x))
  /\ mouseDowns < MaxMouseDowns
  /\ Commit(onMouseDown(World), "mousedown")
  /\ mouseDowns' = mouseDowns + 1
  /\ pressTimes' = segs
  /\ UNCHANGED <<hostUpdates, pointerIn, storeEvents>>

\* a button goes down inside the layer once more, after the presses of
\* MouseDown
MouseDownAgain ==
  /\ pointerIn
  /\ Captured(mouseX)
  /\ mouseDowns = MaxMouseDowns
  /\ Commit(onMouseDown(World), "mousedown")
  /\ mouseDowns' = mouseDowns + 1
  /\ pressTimes' = segs
  /\ UNCHANGED <<hostUpdates, pointerIn, storeEvents>>

\* a button goes up anywhere in the window
MouseUp ==
  /\ Commit(onMouseUp(World), "mouseup")
  /\ UNCHANGED <<mouseDowns, hostUpdates, pressTimes, pointerIn, storeEvents>>

\* the host scrolls the view: user_scroll.zoomview
Scroll ==
  /\ \E offset \in ScrollOffsets :
       /\ PX(offset) # frameOffset
       /\ Commit(updateWaveform(World, offset), "user_scroll")
  /\ UNCHANGED <<mouseDowns, hostUpdates, pressTimes, pointerIn, storeEvents>>

\* the host scrolls the view to an offset that is not a finite Number
ScrollNonFinite ==
  /\ \E offset \in {NaN, Infinity, 0 - Infinity} :
       Commit(updateWaveform(World, offset), "user_scroll")
  /\ UNCHANGED <<mouseDowns, hostUpdates, pressTimes, pointerIn, storeEvents>>

Overlap(a, b) == a.startTime < b.endTime /\ b.startTime < a.endTime

Disjoint(ss) == \A a, b \in SegIds : a # b => ~Overlap(ss[a], ss[b])

\* the host edits a segment of the store (Segment.update, which emits
\* segments.update): either its times, without making segments overlap, or
\* another attribute
HostUpdate ==
  /\ hostUpdates < MaxHostUpdates
  /\ \E i \in 1..Len(store) :
       \E edit \in HostEdits \cup {[startTime |-> segs[store[i]].startTime,
                                     endTime |-> segs[store[i]].endTime]} :
         LET id == store[i]
             edited == [segs EXCEPT ![id].startTime = edit.startTime,
                                    ![id].endTime = edit.endTime]
         IN /\ Disjoint(segs) => Disjoint(edited)
            /\ Commit(onSegmentsUpdate([World EXCEPT !.segs = edited], id),
                      "segments.update")
  /\ hostUpdates' = hostUpdates + 1
  /\ UNCHANGED <<mouseDowns, pressTimes, pointerIn, storeEvents>>

\* the store announces again a segment it holds: segments.add
SegmentsAddAgain ==
  /\ storeEvents < MaxStoreEvents
  /\ \E i \in 1..Len(store) :
       Commit(onSegmentsAdd(World, <<store[i]>>), "segments.add")
  /\ storeEvents' = storeEvents + 1
  /\ UNCHANGED <<mouseDowns, hostUpdates, pressTimes, pointerIn>>

\* the host removes a segment from the store: segments.remove
SegmentsRemove ==
  /\ storeEvents < MaxStoreEvents
  /\ \E i \in 1..Len(store) :
       Commit(onSegmentsRemove(
                [World EXCEPT !.store = SelectSeq(@, LAMBDA k : k # store[i])],
                <<store[i]>>),
              "segments.remove")
  /\ storeEvents' = storeEvents + 1
  /\ UNCHANGED <<mouseDowns, hostUpdates, pressTimes, pointerIn>>

\* the host empties the store: segments.remove_all
SegmentsRemoveAll ==
  /\ storeEvents < MaxStoreEvents
  /\ store # <<>>
  /\ Commit(onSegmentsRemoveAll([World EXCEPT !.store = <<>>]), "segments.remove_all")
  /\ storeEvents' = storeEvents + 1
  /\ UNCHANGED <<mouseDowns, hostUpdates, pressTimes, pointerIn>>

\* the host selects a segment of the store, or none: segments.select
SegmentsSelect ==
  /\ storeEvents < MaxStoreEvents
  /\ store # <<>>
  /\ \E id \in {NoSegment} \cup {store[i] : i \in 1..Len(store)} :
       Commit(onSegmentsSelect(World, id), "segments.select")
  /\ storeEvents' = storeEvents + 1
  /\ UNCHANGED <<mouseDowns, hostUpdates, pressTimes, pointerIn>>

\* the host moves a segment of the store to later times, without making
\* segments overlap (Segment.update, which emits segments.update)
HostMove ==
  /\ hostUpdates < MaxHostUpdates
  /\ \E i \in 1..Len(store), edit \in HostMoves :
       LET id == store[i]
           edited == [segs EXCEPT ![id].startTime = edit.startTime,
                                  ![id].endTime = edit.endTime]
       IN /\ Disjoint(segs) => Disjoint(edited)
          /\ Commit(onSegmentsUpdate([World EXCEPT !.segs = edited], id),
                    "segments.update")
  /\ hostUpdates' = hostUpdates + 1
  /\ UNCHANGED <<mouseDowns, pressTimes, pointerIn, storeEvents>>

\* the pointer drives the layer: the host adds its segments and scrolls
Next ==
  \/ SegmentsAdd
  \/ MouseEnter
  \/ MouseMove
  \/ MouseLeave
  \/ MouseDown
  \/ MouseUp
  \/ Scroll

Spec == Init /\ [][Next]_vars

\* the host edits its segments while the pointer hovers and the view scrolls
NextHost ==
  \/ SegmentsAdd
  \/ HostUpdate
  \/ MouseEnter
  \/ MouseMove
  \/ MouseLeave
  \/ Scroll

SpecHost == Init /\ [][NextHost]_vars

\* the host moves a segment while the pointer is over the layer and a button
\* goes down
NextMove ==
  \/ SegmentsAdd
  \/ HostMove
  \/ MouseEnter
  \/ MouseLeave
  \/ MouseDown
  \/ MouseUp

SpecMove == Init /\ [][NextMove]_vars

\* the host adds, removes and selects segments while the pointer hovers and
\* the view scrolls
NextStore ==
  \/ SegmentsAdd
  \/ SegmentsAddAgain
  \/ SegmentsRemove
  \/ SegmentsRemoveAll
  \/ SegmentsSelect
  \/ MouseEnter
  \/ MouseMove
  \/ MouseLeave
  \/ Scroll

SpecStore == Init /\ [][NextStore]_vars

\* the pointer hovers, presses and releases, from the moment the view is built
SpecPress ==
  Init /\ [][SegmentsAdd \/ MouseDownUnmoved \/ MouseEnter \/ MouseMove \/ MouseLeave
               \/ MouseDown \/ MouseUp]_vars

\* the pointer hovers, presses and releases over segments the host marked as
\* not editable (segment.editable is false)
SpecReadOnly ==
  /\ InitWith({[id \in SegIds |-> [SegsOf(cfg)[id] EXCEPT !.editable = FALSE]] :
                 cfg \in StoreConfigs})
  /\ [][SegmentsAdd \/ MouseEnter \/ MouseMove \/ MouseLeave \/ MouseDown
         \/ MouseUp]_vars

\* the pointer hovers over two segments that share a boundary (at pixel 20) or
\* that overlap, while the host moves a segment and the view scrolls
SpecTouch ==
  /\ InitWith({SegsOf(<<[startTime |-> 20, endTime |-> 40],
                         [startTime |-> 40, endTime |-> 124]>>),
               SegsOf(<<[startTime |-> 20, endTime |-> 70],
                         [startTime |-> 36, endTime |-> 60]>>)})
  /\ [][SegmentsAdd \/ HostMove \/ MouseEnter \/ MouseMove \/ MouseLeave
         \/ Scroll]_vars

\* the pointer enters, presses, releases and presses again while the view
\* scrolls under it
SpecFocus ==
  Init /\ [][SegmentsAdd \/ MouseEnter \/ MouseDown \/ MouseDownAgain \/ MouseUp
               \/ Scroll]_vars

\* the host scrolls the view, to any Number, while the pointer hovers
SpecOffset ==
  Init /\ [][SegmentsAdd \/ MouseEnter \/ MouseMove \/ MouseLeave \/ Scroll
               \/ ScrollNonFinite]_vars

\* ------------------------------------------------------------ the amplitude scale
\* view.setAmplitudeScale(scale), lines 592-603.  A JavaScript value is a
\* record of its type (typeof) and, for a Number, its value in tenths, NaN
\* and the infinities included.  The throw of line 594 leaves both scales as
\* they were; a is the pair of scales with the exception raised, if any.
setAmplitudeScaleUnchecked(a, scale) ==
  [a EXCEPT !.view = scale, !.shape = scale, !.error = "none"]

setAmplitudeScale(a, scale) ==
  IF scale.type # "number" \/ scale.value \in {NaN, Infinity, 0 - Infinity}
  THEN [a EXCEPT !.error = "Error"]
  ELSE [a EXCEPT !.view = scale, !.shape = scale, !.error = "none"]

\* the host calls view.setAmplitudeScale with any value
SetAmplitudeScale ==
  /\ \E scale \in [type : {"number"}, value : (0 - 1)..MaxScale \cup {NaN, Infinity, 0 - Infinity}]
                    \cup [type : {"undefined", "object", "string", "boolean"}, value : {0, 10}] :
       LET a == setAmplitudeScale([view |-> amplitude.view, shape |-> amplitude.shape,
                                   error |-> "none"], scale)
       IN /\ amplitude' = [view |-> a.view, shape |-> a.shape, given |-> scale]
          /\ error' = a.error
  /\ handled' = "setAmplitudeScale"
  /\ UNCHANGED <<segs, store, frameOffset, mouseSet, mouseX, mouseY, isMouseOver,
                 isMouseDragging, groups, keys, refOf, visibleSegmentsCount,
                 emitted, mouseDowns, hostUpdates, capturing, pointerIn,
                 storeEvents, destroyed, redrawn, written, segs0, pressTimes,
                 shapes, converted>>

SpecAmplitude == Init /\ [][SetAmplitudeScale]_vars

\* ------------------------------------------------------------ the render's attributes
\* A specification of lines 1289-1383 as a function of what they read: the
\* flags of a group, the layer's pointer and drag state, the number of visible
\* segments and the distance emitEvents measured.  Segment 1 is wider than the
\* two handles, segment 2 is not.
VisualSegments == <<[startTime |-> 4, endTime |-> 76], [startTime |-> 76, endTime |-> 80]>>

\* the pointer positions (pixels); x = 0 is falsy at line 1289
VisualPointers == {[x |-> 0, y |-> 8], [x |-> 4, y |-> 8], [x |-> 20, y |-> 30], [x |-> 39, y |-> 8]}

\* the hover flags of a group: of the body, the start handle and the end handle
HoverFlags ==
  {<<"undefined", "undefined", "undefined">>, <<"false", "false", "false">>,
   <<"true", "false", "false">>, <<"true", "true", "false">>,
   <<"true", "false", "true">>, <<"true", "true", "true">>}

\* the group of segment id as _createSegmentGroup and layout make it, with the
\* flags given
FlaggedGroup(ss, id, hover, drag, touching) ==
  LET seg == ss[id]
      startPixel == timeToPixels(seg.startTime)
      endPixel == timeToPixels(seg.endTime)
  IN [NewGroup(id) EXCEPT
        !.attached = TRUE,
        !.isMouseOver = hover[1],
        !.isSegmentTouching = touching,
        !.highlightRect = [x |-> startPixel, width |-> endPixel - startPixel],
        !.startHandle = [NewHandle EXCEPT !.isMouseOver = hover[2],
                                          !.isMouseDragging = (drag = "start"),
                                          !.x = startPixel],
        !.endHandle = [NewHandle EXCEPT !.isMouseOver = hover[3],
                                        !.isMouseDragging = (drag = "end"),
                                        !.x = endPixel - PX(HandleSize)]]

InitVisuals ==
  /\ \E target \in SegIds, focused \in BOOLEAN, hover \in HoverFlags,
        drag \in {"none", "start", "end"}, touching \in BOOLEAN :
       /\ segs = [id \in SegIds |-> [startTime |-> VisualSegments[id].startTime,
                                     endTime |-> VisualSegments[id].endTime,
                                     isFocused |-> Tri(focused /\ id = target)]]
       /\ groups = [r \in Refs |->
                      IF r = target THEN FlaggedGroup(segs, r, hover, drag, touching)
                      ELSE IF r \in SegIds
                      THEN FlaggedGroup(segs, r, <<"false", "false", "false">>, "none", FALSE)
                      ELSE FreeGroup]
  /\ store = <<1, 2>>
  /\ frameOffset = 0
  /\ \/ mouseSet = FALSE /\ mouseX = 0 /\ mouseY = 0 /\ isMouseOver = FALSE
     \/ \E pos \in VisualPointers :
          mouseSet = TRUE /\ mouseX = PX(pos.x) /\ mouseY = pos.y /\ isMouseOver = TRUE
  /\ isMouseDragging \in BOOLEAN
  /\ keys = <<1, 2>>
  /\ refOf = [id \in SegIds |-> id]
  \* undefined before the first pass, and either side of the limit of line 1209
  /\ visibleSegmentsCount \in {0 - 1, 2, EffectsLimit, EffectsLimit + 1}
  /\ emitted = <<>>
  /\ error = "none"
  /\ handled = "init"
  /\ mouseDowns = 0
  /\ hostUpdates = 0
  /\ capturing = TRUE
  /\ pointerIn = mouseSet
  /\ storeEvents = 0
  /\ destroyed = <<>>
  /\ redrawn = FALSE
  /\ written = <<>>
  /\ segs0 = segs
  /\ pressTimes = segs
  /\ \E measured \in {<<>>} \cup {<<PX(pos.x)>> : pos \in VisualPointers} :
       shapes = [r \in Refs |->
                   IF r \in SegIds /\ measured # <<>>
                   THEN [NewShape EXCEPT !.highlightRectDistance =
                           <<highlightRectDistance(measured[1], groups[r].highlightRect)>>]
                   ELSE NewShape]
  /\ converted = [from |-> "none", given |-> <<>>, there |-> <<>>, back |-> <<>>]
  /\ amplitude = [view |-> [type |-> "number", value |-> 10],
                  shape |-> [type |-> "number", value |-> 10],
                  given |-> [type |-> "undefined", value |-> 0]]

\* every group of the registry is rendered: its shapes are given their attributes
RenderVisuals ==
  /\ handled = "init"
  /\ shapes' = [r \in Refs |->
                  IF \E id \in SegIds : refOf[id] = r
                  THEN paint(World, groups[r], segs[groups[r].segment], shapes[r])
                  ELSE shapes[r]]
  /\ handled' = "render"
  /\ UNCHANGED <<segs, store, frameOffset, mouseSet, mouseX, mouseY, isMouseOver,
                 isMouseDragging, groups, keys, refOf, visibleSegmentsCount,
                 emitted, error, mouseDowns, hostUpdates, capturing, pointerIn,
                 storeEvents, destroyed, redrawn, written, segs0, pressTimes,
                 converted, amplitude>>

SpecVisuals == InitVisuals /\ [][RenderVisuals]_vars

\* ------------------------------------------------------------ the conversions
\* A specification of timeToPixels and pixelsToTime as functions, at one
\* sample rate and scale: a pixel index is converted to its time and back, a
\* time (a whole number of hundredths of a second) to its pixel and back.
MaxPixel == 127

MaxHundredths == 127

InitConvert ==
  /\ segs = SegsOf(<<[startTime |-> 20, endTime |-> 43], [startTime |-> 61, endTime |-> 124]>>)
  /\ store = <<>>
  /\ frameOffset = 0
  /\ mouseSet = FALSE /\ mouseX = 0 /\ mouseY = 0
  /\ isMouseOver = FALSE
  /\ isMouseDragging = FALSE
  /\ groups = [r \in Refs |-> FreeGroup]
  /\ keys = <<>>
  /\ refOf = [id \in SegIds |-> NoGroup]
  /\ visibleSegmentsCount = 0 - 1
  /\ emitted = <<>>
  /\ error = "none"
  /\ handled = "init"
  /\ mouseDowns = 0
  /\ hostUpdates = 0
  /\ capturing = TRUE
  /\ pointerIn = FALSE
  /\ storeEvents = 0
  /\ destroyed = <<>>
  /\ redrawn = FALSE
  /\ written = <<>>
  /\ segs0 = segs
  /\ pressTimes = segs
  /\ shapes = [r \in Refs |-> NewShape]
  /\ amplitude = [view |-> [type |-> "number", value |-> 10],
                  shape |-> [type |-> "number", value |-> 10],
                  given |-> [type |-> "undefined", value |-> 0]]
  /\ \/ \E p \in 0..MaxPixel :
          converted = [from |-> "pixels", given |-> <<p>>, there |-> <<>>, back |-> <<>>]
     \/ \E h \in 0..MaxHundredths :
          converted = [from |-> "time", given |-> <<h>>, there |-> <<>>, back |-> <<>>]

\* the view converts a pixel index to its time
PixelsToTime ==
  /\ \/ /\ converted.from = "pixels" /\ converted.there = <<>>
        /\ converted' = [converted EXCEPT !.there = <<numberPixelsToTime(converted.given[1])>>]
     \/ /\ converted.from = "time" /\ converted.there # <<>> /\ converted.back = <<>>
        /\ converted' = [converted EXCEPT !.back = <<numberPixelsToTime(converted.there[1])>>]
  /\ handled' = "pixelsToTime"
  /\ UNCHANGED <<segs, store, frameOffset, mouseSet, mouseX, mouseY, isMouseOver,
                 isMouseDragging, groups, keys, refOf, visibleSegmentsCount,
                 emitted, error, mouseDowns, hostUpdates, capturing, pointerIn,
                 storeEvents, destroyed, redrawn, written, segs0, pressTimes, shapes,
                 amplitude>>

\* the view converts a time to its pixel index
TimeToPixels ==
  /\ \/ /\ converted.from = "time" /\ converted.there = <<>>
        /\ converted' = [converted EXCEPT !.there =
                            <<numberTimeToPixels(hundredths(converted.given[1]))>>]
     \/ /\ converted.from = "pixels" /\ converted.there # <<>> /\ converted.back = <<>>
        /\ converted' = [converted EXCEPT !.back = <<numberTimeToPixels(converted.there[1])>>]
  /\ handled' = "timeToPixels"
  /\ UNCHANGED <<segs, store, frameOffset, mouseSet, mouseX, mouseY, isMouseOver,
                 isMouseDragging, groups, keys, refOf, visibleSegmentsCount,
                 emitted, error, mouseDowns, hostUpdates, capturing, pointerIn,
                 storeEvents, destroyed, redrawn, written, segs0, pressTimes, shapes,
                 amplitude>>

SpecConvert == InitConvert /\ [][PixelsToTime \/ TimeToPixels]_vars

\* ------------------------------------------------------------ properties
\* the start and end times of every segment
Times(ss) == [id \in SegIds |-> <<ss[id].startTime, ss[id].endTime>>]

\* the ids of the segments that have a group in _segmentGroups
Registered == {id \in SegIds : refOf[id] # NoGroup}

\* C1: whatever handles are dragged, every segment keeps its start before its
\* end and stays at least the minimum duration (0.2 s) long.
DragKeepsMinimumDuration ==
  \A id \in SegIds : segs[id].endTime - segs[id].startTime >= MinSegmentDuration

\* C2: segments that did not overlap when the host added them do not overlap
\* after any pointer-downs, pointer-moves, scrolls and pointer-ups.
DragsKeepSegmentsApart == Disjoint(segs0) => Disjoint(segs)

\* a handler that rendered every registered group at the pointer's position
DragPass == error = "none" /\ handled \in {"mouseenter", "mousemove", "user_scroll"}

\* the group of segment id has its start handle dragged against a left
\* neighbour whose end is at or past the time under the pointer
PushesLeft(id) ==
  /\ id \in Registered
  /\ groups[refOf[id]].startHandle.isMouseDragging
  /\ groups[refOf[id]].neighbours.left # NoGroup
  /\ mouseX > 0
  /\ segs[groups[groups[refOf[id]].neighbours.left].segment].endTime
       >= startCandidate(World, refOf[id])

\* the start of segment id is the end of its left neighbour, which is touched
ClampedLeft(id) ==
  /\ segs[id].startTime = segs[groups[groups[refOf[id]].neighbours.left].segment].endTime
  /\ groups[groups[refOf[id]].neighbours.left].isSegmentTouching

\* the same for the end handle and the right neighbour
PushesRight(id) ==
  /\ id \in Registered
  /\ groups[refOf[id]].endHandle.isMouseDragging
  /\ groups[refOf[id]].neighbours.right # NoGroup
  /\ mouseX <= Width
  /\ segs[groups[groups[refOf[id]].neighbours.right].segment].startTime
       <= endCandidate(World, refOf[id])

ClampedRight(id) ==
  /\ segs[id].endTime = segs[groups[groups[refOf[id]].neighbours.right].segment].startTime
  /\ groups[groups[refOf[id]].neighbours.right].isSegmentTouching

\* after a pointer-up no registered group is touched
ReleaseClearsTouching ==
  (handled = "mouseup" /\ error = "none")
    => \A id \in Registered : ~groups[refOf[id]].isSegmentTouching

StartClearOfMinimum(id) ==
  ~startAtMinimum(startCandidate(World, refOf[id]), segs[id].endTime)

EndClearOfMinimum(id) ==
  /\ ~groups[refOf[id]].startHandle.isMouseDragging
  /\ ~endAtMinimum(endCandidate(World, refOf[id]), segs[id].startTime)

TouchClampEndWitness ==
  /\ handled = "mousemove" /\ error = "none"
  /\ Disjoint(segs)
  /\ \E id \in SegIds : PushesRight(id) /\ EndClearOfMinimum(id) /\ ClampedRight(id)

\* C3's case for the release
TouchReleaseWitness ==
  /\ handled = "mouseup" /\ error = "none"
  /\ \E id \in SegIds : segs[id].startTime # segs0[id].startTime

\* the number of events of one kind that a handler emitted for one group
HoverCount(evs, name, g, isInHandle) ==
  Cardinality({i \in 1..Len(evs) : /\ evs[i].name = name
                                   /\ evs[i].group = g
                                   /\ evs[i].isInHandle = isInHandle})

\* 1 when a hover flag went from not true to true (rising) or from true to
\* not true (falling) between two values, 0 otherwise
Edge(before, after, rising) ==
  IF rising THEN (IF ~Truthy(before) /\ Truthy(after) THEN 1 ELSE 0)
  ELSE (IF Truthy(before) /\ ~Truthy(after) THEN 1 ELSE 0)

\* the events of a handler are the changes of the hover flags of group r
EdgesOf(r, before, after, evs) ==
  /\ HoverCount(evs, "segmentGroup.mouseenter", r, FALSE)
       = Edge(before.isMouseOver, after.isMouseOver, TRUE)
  /\ HoverCount(evs, "segmentGroup.mouseleave", r, FALSE)
       = Edge(before.isMouseOver, after.isMouseOver, FALSE)
  /\ \A isStart \in BOOLEAN :
       /\ HoverCount(evs, "segmentGroup.handle.mouseenter", r, isStart)
            = Edge(handleOver(before, isStart), handleOver(after, isStart), TRUE)
       /\ HoverCount(evs, "segmentGroup.handle.mouseleave", r, isStart)
            = Edge(handleOver(before, isStart), handleOver(after, isStart), FALSE)

\* C4: hover events are edge-triggered.  In every handler each group emits one
\* enter event for each hover flag that becomes true, one leave event for each
\* flag that stops being true, and no other hover event.
HoverEventsAreEdges ==
  [][\A r \in Refs : groups'[r].live => EdgesOf(r, groups[r], groups'[r], emitted')]_vars

\* C5: a segments.dragged event is emitted only by a handler that changed the
\* boundary of the dragged handle (the start time for isInHandle, the end time
\* otherwise); stated for segments the host added without overlap.
DragEventsOnlyOnChange ==
  [][\A i \in 1..Len(emitted') :
       (Disjoint(segs0) /\ emitted'[i].name = "segments.dragged") =>
         IF emitted'[i].isInHandle
         THEN segs'[emitted'[i].segment].startTime # segs[emitted'[i].segment].startTime
         ELSE segs'[emitted'[i].segment].endTime # segs[emitted'[i].segment].endTime]_vars

\* a handle of the group is being dragged
Dragging(grp, isStart) ==
  IF isStart THEN grp.startHandle.isMouseDragging ELSE grp.endHandle.isMouseDragging

\* no group of the registry has a handle that is being dragged
NoHandleDragged(reg, grps) ==
  \A id \in SegIds : reg[id] # NoGroup =>
    \A isStart \in BOOLEAN : ~Dragging(grps[reg[id]], isStart)

\* C6: after a pointer-up _isMouseDragging is false and no registered group has
\* a dragged handle, and from then until the next pointer-down a pointer-move
\* (or enter, leave, scroll) changes no start or end time.
ReleaseEndsDrag ==
  [][/\ handled' = "mouseup" => (~isMouseDragging' /\ NoHandleDragged(refOf', groups'))
     /\ ~isMouseDragging => NoHandleDragged(refOf, groups)
     /\ (~isMouseDragging /\ handled' # "mousedown") => Times(segs') = Times(segs)]_vars

\* C6's case: a boundary was dragged, the button released, and the pointer
\* moved on
ReleaseEndsDragWitness ==
  /\ handled = "mousemove" /\ error = "none"
  /\ mouseDowns > 0 /\ ~isMouseDragging
  /\ Times(segs) # Times(pressTimes)

\* the handle of segment id's registered group is being dragged
DraggedIn(reg, grps, id, isStart) ==
  reg[id] # NoGroup /\ Dragging(grps[reg[id]], isStart)

\* C7: a handle starts being dragged only in the handler of a pointer-down, and
\* only when the pointer was over that handle; once dragged it stays dragged
\* through every handler but that of the pointer-up, as long as its group
\* stays registered.
DragStartsAtPressAndLasts ==
  [][\A id \in SegIds, isStart \in BOOLEAN :
       /\ (~DraggedIn(refOf, groups, id, isStart) /\ DraggedIn(refOf', groups', id, isStart))
            => /\ handled' = "mousedown"
               /\ refOf[id] = refOf'[id]
               /\ Truthy(handleOver(groups[refOf[id]], isStart))
       /\ (DraggedIn(refOf, groups, id, isStart) /\ handled' # "mouseup"
             /\ refOf'[id] # NoGroup)
            => DraggedIn(refOf', groups', id, isStart)]_vars

\* C7's case: a handle engaged by a pointer-down is still dragged after the
\* pointer left the layer, or after a scroll
DragLastsWitness ==
  /\ handled \in {"mouseleave", "user_scroll"} /\ error = "none"
  /\ \E id \in SegIds, isStart \in BOOLEAN : DraggedIn(refOf, groups, id, isStart)

\* no segments.dragged event among the events
NoDragged(evs) == \A i \in 1..Len(evs) : evs[i].name # "segments.dragged"

\* C8: a pointer-down that engages a handle, followed by a pointer-up with no
\* pointer-move in between, leaves every start and end time as it was before
\* the pointer-down, and neither handler emits segments.dragged; stated for
\* segments the host added without overlap.
ClickLeavesTimes ==
  [][(/\ handled = "mousedown" /\ handled' = "mouseup"
      /\ Disjoint(segs0)
      /\ \E id \in SegIds, isStart \in BOOLEAN : DraggedIn(refOf, groups, id, isStart))
       => /\ Times(segs') = Times(pressTimes)
          /\ NoDragged(emitted) /\ NoDragged(emitted')]_vars

\* the segments of the store that intersect the window
VisibleInWindow ==
  {store[i] : i \in {j \in 1..Len(store) :
     isVisible(segs[store[j]], frameStartTime(World), frameEndTime(World))}}

\* C9: after a handler that ends with updateSegments over the window, the
\* registry holds a group for exactly the segments of the store that intersect
\* the window, and every group still on the layer is in the registry.
RegistryMatchesWindow ==
  (error = "none" /\ handled \in {"segments.add", "mouseenter", "mousemove", "user_scroll"})
    => /\ Registered = VisibleInWindow
       /\ \A r \in Refs : (groups[r].live /\ groups[r].attached)
                             => \E id \in SegIds : refOf[id] = r

\* C9's case: a scroll moved a segment of the store out of the window and its
\* group was removed, while the other segment kept its group
RegistryMatchesWindowWitness ==
  /\ handled = "user_scroll" /\ error = "none"
  /\ Len(store) = 2
  /\ Registered = {2} /\ VisibleInWindow = {2}

\* C10: the handler of segments.update that registers a group for a segment
\* that had none completes without raising an error.
UpdateCreatesGroupQuietly ==
  [][handled' = "segments.update" =>
       \A id \in SegIds : (refOf[id] = NoGroup /\ refOf'[id] # NoGroup) => error' = "none"]_vars

\* C11: every group on the layer is the group the registry holds for its
\* segment, so that a segment has at most one live group; a segments.add event
\* that names a segment with a registered group leaves that group in place
\* and creates no second one.
OneVisualPerSegment ==
  \A r \in Refs : (groups[r].live /\ groups[r].attached)
                     => refOf[groups[r].segment] = r

\* the segments the store held and holds no more
Removed(before, after) ==
  {before[i] : i \in 1..Len(before)} \ {after[i] : i \in 1..Len(after)}

\* a handler that ends with updateSegments over the window
ReconcilePass(name) ==
  name \in {"segments.add", "mouseenter", "mousemove", "user_scroll", "segments.select"}

\* C12: the handler of segments.remove destroys the registered group of the
\* removed segment once, and takes the segment out of the registry; for a
\* segment that has no group it destroys nothing and changes neither the
\* registry nor any group.  A later updateSegments that finds no segment in
\* the window, with nothing registered, changes nothing and destroys nothing.
RemoveDestroysOnce ==
  [][/\ handled' = "segments.remove" =>
          \A id \in Removed(store, store') :
            /\ error' = "none"
            /\ refOf'[id] = NoGroup
            /\ IF refOf[id] # NoGroup
               THEN destroyed' = <<refOf[id]>>
               ELSE destroyed' = <<>> /\ refOf' = refOf /\ groups' = groups
     /\ (ReconcilePass(handled') /\ Registered = {} /\ visibleSegmentsCount' = 0) =>
          /\ error' = "none"
          /\ destroyed' = <<>> /\ refOf' = refOf /\ groups' = groups]_vars

\* C12's case: a segment with a registered group was removed from the store,
\* and a later pass over the window found no segment and nothing registered
RemoveDestroysOnceWitness ==
  /\ ReconcilePass(handled) /\ error = "none"
  /\ storeEvents = 1 /\ Len(store) = 1
  /\ visibleSegmentsCount = 0 /\ Registered = {} /\ destroyed = <<>>

\* C13: updateSegments draws the layer only when it added or removed a group.
\* A scroll runs updateSegments and nothing else of the layer (_updateWaveform,
\* line 659 of waveform-shape.js), so after a scroll that drew the layer the
\* registry differs from the registry before it.
RedrawOnlyOnChange ==
  [][(handled' = "user_scroll" /\ error' = "none" /\ redrawn') => refOf' # refOf]_vars

\* C14: after the handler of segments.remove_all the registry is empty, no
\* group is on the layer, and the mouse capturing rectangle is still on the
\* layer, so that the pointer is captured wherever it is; a later
\* updateSegments registers a group for every segment of the store in the
\* window.
RemoveAllLeavesWorkingLayer ==
  /\ handled = "segments.remove_all" =>
       /\ Registered = {}
       /\ \A r \in Refs : ~(groups[r].live /\ groups[r].attached)
       /\ capturing
  /\ (ReconcilePass(handled) /\ error = "none") => Registered = VisibleInWindow

\* a handle of the group is hovered while the group's body is not
HandleOverOffBody(grp) ==
  /\ ~Truthy(grp.isMouseOver)
  /\ Truthy(grp.startHandle.isMouseOver) \/ Truthy(grp.endHandle.isMouseOver)

\* C15: after every handler that returned, no live group has a hovered handle
\* while its body is not hovered.
HandleHoverNeedsBodyHover ==
  error = "none" => \A r \in Refs : groups[r].live => ~HandleOverOffBody(groups[r])

\* C15's case: segments.select gave the pointer to another segment than the
\* one whose handle was hovered, and the pass cleared that handle
HandleHoverNeedsBodyHoverWitness ==
  /\ handled = "segments.select" /\ error = "none"
  /\ \E id \in Registered :
       /\ emitted # <<>>
       /\ \E i \in 1..Len(emitted) :
            /\ emitted[i].name = "segmentGroup.handle.mouseleave"
            /\ emitted[i].segment = id
       /\ ~Truthy(groups[refOf[id]].isMouseOver)
  /\ \E id \in Registered : Truthy(groups[refOf[id]].isMouseOver)

\* the handlers of the five pointer triggers
PointerHandlers == {"mouseenter", "mousemove", "mouseleave", "mousedown", "mouseup"}

\* C16: _mouseX, _mouseY, _isMouseOver and _isMouseDragging are changed only
\* by the handlers of pointer-enter, pointer-move, pointer-leave, pointer-down
\* and pointer-up; the handler of any other event leaves the four as they were.
SnapshotChangedByPointerOnly ==
  [][handled' \notin PointerHandlers =>
       /\ mouseSet' = mouseSet /\ mouseX' = mouseX /\ mouseY' = mouseY
       /\ isMouseOver' = isMouseOver
       /\ isMouseDragging' = isMouseDragging]_vars

\* a hover flag of the group, or of one of its handles, is true
Hovered(grp) ==
  \/ Truthy(grp.isMouseOver)
  \/ Truthy(grp.startHandle.isMouseOver)
  \/ Truthy(grp.endHandle.isMouseOver)

\* C17: after the handler of pointer-leave _isMouseOver is false, the pointer
\* position is the sentinel above the layer (the middle of the width, y = -20),
\* and no registered group and no handle of one is hovered.
LeaveClearsHover ==
  handled = "mouseleave" =>
    /\ error = "none"
    /\ ~isMouseOver
    /\ mouseSet /\ mouseX = Width \div 2 /\ mouseY = LeaveSentinelY /\ mouseY < 0
    /\ \A id \in Registered : ~Hovered(groups[refOf[id]])

\* C17's case: the pointer left the layer while it was over a handle
LeaveClearsHoverWitness ==
  /\ handled = "mouseleave" /\ error = "none"
  /\ \E i \in 1..Len(emitted) : emitted[i].name = "segmentGroup.handle.mouseleave"
  /\ \E i \in 1..Len(emitted) : emitted[i].name = "segmentGroup.mouseleave"

\* the handlers of the store's events and of the scroll leave the pointer
\* snapshot as it was, the handler of segments.select apart
SnapshotKeptByOtherEvents ==
  [][handled' \notin PointerHandlers \cup {"segments.select"} =>
       /\ mouseSet' = mouseSet /\ mouseX' = mouseX /\ mouseY' = mouseY
       /\ isMouseOver' = isMouseOver
       /\ isMouseDragging' = isMouseDragging]_vars

\* the segments.dragged events among the events, in order
DraggedEvents(evs) == SelectSeq(evs, LAMBDA e : e.name = "segments.dragged")

\* the event tells the write: the group is the registered group of the written
\* segment, and isInHandle tells a start time from an end time
TellsWrite(ev, wr, reg, grps) ==
  /\ ev.segment = wr.segment
  /\ ev.isInHandle = wr.isStart
  /\ grps[ev.group].segment = wr.segment

\* C18: in every handler the segments.dragged events are, one for one and in
\* order, the writes of a start or end time by _renderSegmentGroup: each write
\* is followed by one event that carries the group of the written segment and
\* tells which boundary was written, and there is no other segments.dragged.
EveryWriteEmitsDragged ==
  /\ Len(DraggedEvents(emitted)) = Len(written)
  /\ \A i \in 1..Len(written) :
       i <= Len(DraggedEvents(emitted)) =>
         TellsWrite(DraggedEvents(emitted)[i], written[i], refOf, groups)

\* C18's case: a pointer-move wrote the end time of a dragged segment, after
\* an earlier handler had written it
EveryWriteEmitsDraggedWitness ==
  /\ handled = "mousemove" /\ error = "none"
  /\ \E i \in 1..Len(written) :
       /\ ~written[i].isStart
       /\ segs[written[i].segment].endTime # pressTimes[written[i].segment].endTime

\* the groups of the segments just before and just after segment id in the
\* segments of the window ordered by start time; none where there is no such
\* segment, and none when segment id is not among them
WindowNeighbours(id) ==
  LET segments == find(World, frameStartTime(World), frameEndTime(World))
      index == IndexOf(segments, id)
  IN [left  |-> IF index > 1 THEN refOf[segments[index - 1]] ELSE NoGroup,
      right |-> IF index >= 1 /\ index < Len(segments)
                THEN refOf[segments[index + 1]] ELSE NoGroup]

\* C19: the neighbours a pointer-down captures for a segment whose handle it
\* engages are the groups of the segments just before and just after it in
\* the window's segments ordered by start time, none where there is no such
\* segment (the segment is first, last, or not in the window), and never the
\* segment's own group.
CapturedNeighboursAreAdjacent ==
  [][handled' = "mousedown" =>
       \A id \in SegIds :
         (\E isStart \in BOOLEAN : DraggedIn(refOf', groups', id, isStart)) =>
           /\ groups'[refOf'[id]].neighbours = WindowNeighbours(id)
           /\ groups'[refOf'[id]].neighbours.left # refOf'[id]
           /\ groups'[refOf'[id]].neighbours.right # refOf'[id]]_vars

\* the start handle of segment id's group is dragged with no left neighbour,
\* and the time under the pointer is not negative and more than the minimum
\* duration before the segment's end
FreeStartDrag(id) ==
  /\ id \in Registered
  /\ groups[refOf[id]].startHandle.isMouseDragging
  /\ groups[refOf[id]].neighbours.left = NoGroup
  /\ mouseSet
  /\ startCandidate(World, refOf[id]) >= 0
  /\ startCandidate(World, refOf[id]) < segs[id].endTime - MinSegmentDuration

\* C20 as stated: after a pass that rendered a start handle dragged with no
\* left neighbour to a time c with 0 <= c < endTime - 0.2 s, the segment's
\* start time is c.
FreeStartDragCommits ==
  DragPass => \A id \in SegIds :
                FreeStartDrag(id) => segs[id].startTime = startCandidate(World, refOf[id])

\* C20, amended: the same when the pointer's x is greater than 0, the test
\* line 1225 makes before it looks at the time under the pointer.
FreeStartDragCommitsRightOfEdge ==
  DragPass => \A id \in SegIds :
                (FreeStartDrag(id) /\ mouseX > 0)
                  => segs[id].startTime = startCandidate(World, refOf[id])

\* C20's case: a pointer-move dragged a start handle with no left neighbour to
\* an earlier time, which was written
FreeStartDragWitness ==
  /\ handled = "mousemove" /\ error = "none"
  /\ \E id \in SegIds :
       /\ FreeStartDrag(id) /\ mouseX > 0
       /\ segs[id].startTime = startCandidate(World, refOf[id])
       /\ segs[id].startTime < pressTimes[id].startTime - MinSegmentDuration

\* C21: no drag writes a negative time: every segment keeps startTime >= 0.
DragKeepsTimesNonNegative ==
  \A id \in SegIds : segs[id].startTime >= 0

\* the pointer is over the body of the group as the group lies now
OverBodyNow(grp) ==
  /\ mouseSet /\ isMouseOver
  /\ grp.highlightRect.x < mouseX
  /\ mouseX <= grp.highlightRect.x + grp.highlightRect.width

\* C22: after a reconcile pass the body hover flag of every registered group
\* is true exactly when _isMouseOver holds and the pointer lies right of the
\* highlight's left edge and not right of its right edge.
BodyHoverIsHit ==
  (ReconcilePass(handled) /\ error = "none") =>
    \A id \in Registered :
      Truthy(groups[refOf[id]].isMouseOver) <=> OverBodyNow(groups[refOf[id]])

\* C22's case: a pass left the pointer on the last pixel of a hovered body
BodyHoverIsHitWitness ==
  /\ ReconcilePass(handled) /\ error = "none" /\ isMouseOver
  /\ \E id \in Registered :
       /\ Truthy(groups[refOf[id]].isMouseOver)
       /\ mouseX = groups[refOf[id]].highlightRect.x + groups[refOf[id]].highlightRect.width

\* the pointer is within the handle's height
InHandleHeight == mouseY >= 0 /\ mouseY <= HandleSize

\* the pointer is, horizontally, in the footprint of the start handle or within
\* the tolerance of the start edge
NearStartEdge(grp) ==
  \/ mouseX <= grp.highlightRect.x + PX(HandleSize)
  \/ mouseX <= grp.highlightRect.x + PX(EdgeTolerance)

NearEndEdge(grp) ==
  \/ mouseX >= grp.highlightRect.x + grp.highlightRect.width - PX(HandleSize)
  \/ mouseX >= grp.highlightRect.x + grp.highlightRect.width - PX(EdgeTolerance)

\* C23: after a reconcile pass, a handle of a group whose body is hovered is
\* hovered exactly when the pointer is horizontally within the handle's
\* footprint or within 3 px of its edge and, in addition, within the handle's
\* height; a pointer below the handle's height hovers no handle.
HandleHoverNeedsHandleHeight ==
  (ReconcilePass(handled) /\ error = "none") =>
    \A id \in Registered :
      LET grp == groups[refOf[id]]
      IN Truthy(grp.isMouseOver) =>
           /\ Truthy(grp.startHandle.isMouseOver) <=> (NearStartEdge(grp) /\ InHandleHeight)
           /\ Truthy(grp.endHandle.isMouseOver) <=> (NearEndEdge(grp) /\ InHandleHeight)

\* C24: the fill a render gives the highlight of a group follows the
\* precedence focused > touching > hovered > rest: the focus colour for a
\* focused segment whatever its other flags, otherwise the warning colour for
\* a group touched while a drag is going on, otherwise the active colour for a
\* hovered group, otherwise the rest colour.
FillFollowsPrecedence ==
  handled = "render" =>
    \A id \in Registered :
      LET grp == groups[refOf[id]]
          fill == shapes[refOf[id]].highlightRect.fill
          focused == Truthy(segs[id].isFocused)
          touched == isMouseDragging /\ grp.isSegmentTouching
          hovered == Truthy(grp.isMouseOver)
      IN /\ focused => fill = "#66DE9D"
         /\ (~focused /\ touched) => fill = "#de9866"
         /\ (~focused /\ ~touched /\ hovered) => fill = "#78A9D7"
         /\ (~focused /\ ~touched /\ ~hovered) => fill = "#313335"

\* C24's case: a group that is focused, touched under a drag and hovered at
\* once has been rendered
FillFollowsPrecedenceWitness ==
  /\ handled = "render"
  /\ \E id \in Registered :
       /\ Truthy(segs[id].isFocused)
       /\ isMouseDragging /\ groups[refOf[id]].isSegmentTouching
       /\ Truthy(groups[refOf[id]].isMouseOver)
       /\ shapes[refOf[id]].highlightRect.fill = "#66DE9D"

\* C25: after a render, the start time label of a group is visible exactly
\* when its start handle is hovered or dragged, and the end time label exactly
\* when its end handle is; the label of a handle that is neither is hidden.
LabelShownWithItsHandle ==
  handled = "render" =>
    \A id \in Registered :
      LET grp == groups[refOf[id]]
          shape == shapes[refOf[id]]
      IN /\ shape.startTimeLabel.visible <=>
              (Truthy(grp.startHandle.isMouseOver) \/ grp.startHandle.isMouseDragging)
         /\ shape.endTimeLabel.visible <=>
              (Truthy(grp.endHandle.isMouseOver) \/ grp.endHandle.isMouseDragging)

\* the group with the flags of one of its handles replaced
WithHandle(grp, isStart, over, dragged) ==
  IF isStart
  THEN [grp EXCEPT !.startHandle.isMouseOver = Tri(over), !.startHandle.isMouseDragging = dragged]
  ELSE [grp EXCEPT !.endHandle.isMouseOver = Tri(over), !.endHandle.isMouseDragging = dragged]

\* the opacity a render gives the start (or end) handle of the group, were the
\* other handle's hover and drag flags over and dragged, the pointer at pos
\* and the measured distance that of a pointer at pos
HandleOpacityWere(r, isStart, over, dragged, pos) ==
  LET grp == WithHandle(groups[r], ~isStart, over, dragged)
      w == [World EXCEPT !.mouseSet = TRUE, !.mouseX = PX(pos.x), !.mouseY = pos.y]
      shape == [shapes[r] EXCEPT !.highlightRectDistance =
                  <<highlightRectDistance(PX(pos.x), grp.highlightRect)>>]
      painted == paint(w, grp, segs[grp.segment], shape)
  IN IF isStart THEN painted.startHandle.opacity ELSE painted.endHandle.opacity

\* the group is wider than its two handles: the render sets the handles' opacity
ShowsHandles(grp) == grp.highlightRect.width > PX(HandleSize) + PX(HandleSize)

\* C26: with more than 30 segments visible no falloff is applied: a render
\* gives the highlight of a group that is not hovered, dragged, focused or
\* touching the baseline opacity whatever the pointer distance, and gives each
\* handle an opacity that depends on that handle's own hover, drag and focus
\* flags only: the pointer's place and the other handle's flags do not change it.
NoFalloffPastLimit ==
  (handled = "render" /\ visibleSegmentsCount > EffectsLimit) =>
    \A id \in Registered :
      LET r == refOf[id]
          grp == groups[r]
      IN /\ (~isSegmentActive(World, grp) /\ ~Truthy(segs[id].isFocused)
               /\ ~grp.isSegmentTouching)
              => shapes[r].highlightRect.opacity = Opacity(15)
         /\ ShowsHandles(grp) =>
              \A over \in BOOLEAN, dragged \in BOOLEAN, pos \in VisualPointers :
                /\ HandleOpacityWere(r, TRUE, over, dragged, pos) = shapes[r].startHandle.opacity
                /\ HandleOpacityWere(r, FALSE, over, dragged, pos) = shapes[r].endHandle.opacity

\* the render takes the group for hovered, dragged or focused
Lit(r) == isSegmentActive(World, groups[r]) \/ Truthy(segs[groups[r].segment].isFocused)

\* C27: the opacity a render gives the highlight of a hovered, dragged or
\* focused group is greater than the baseline opacity, and at least the
\* opacity it gives the highlight of any group that is not hovered, dragged,
\* focused or touching.
LitIsNeverDimmer ==
  handled = "render" =>
    \A a \in Registered, b \in Registered :
      (Lit(refOf[a]) /\ ~Lit(refOf[b]) /\ ~groups[refOf[b]].isSegmentTouching) =>
        /\ shapes[refOf[a]].highlightRect.opacity > Opacity(15)
        /\ shapes[refOf[a]].highlightRect.opacity >= shapes[refOf[b]].highlightRect.opacity

\* a <= b, for two Numbers
NumberLeq(a, b) ==
  \/ a.limbs = <<>>
  \/ /\ b.limbs # <<>>
     /\ \/ a.exp < b.exp
        \/ /\ a.exp = b.exp
           /\ \/ a.limbs = b.limbs
              \/ \E i \in 1..Len(a.limbs) :
                   /\ a.limbs[i] < b.limbs[i]
                   /\ \A j \in 1..(i - 1) : a.limbs[j] = b.limbs[j]

\* C28: at one scale and sample rate the two conversions are consistent:
\* timeToPixels(pixelsToTime(p)) = p for every pixel index p >= 0;
\* pixelsToTime(timeToPixels(t)) is at most t and less than one pixel's
\* duration under it; and timeToPixels does not decrease as t grows.
ConversionsAgree ==
  /\ (converted.from = "pixels" /\ converted.back # <<>>) =>
       converted.back[1] = converted.given[1]
  /\ (converted.from = "time" /\ converted.back # <<>>) =>
       /\ NumberLeq(converted.back[1], hundredths(converted.given[1]))
       /\ ~NumberLeq(numberPixelsToTime(converted.there[1] + 1),
                     hundredths(converted.given[1]))
  /\ (converted.from = "time" /\ converted.there # <<>>) =>
       converted.there[1] <= numberTimeToPixels(hundredths(converted.given[1] + 1))

\* C29: a scroll to an offset that is not finite (NaN, Infinity, -Infinity)
\* is rejected: the step leaves the frame offset as it was, and the frame
\* offset is a finite Number in every state.
NonFiniteOffsetRejected ==
  /\ [](frameOffset \notin {NaN, Infinity, 0 - Infinity})
  /\ [][ScrollNonFinite => frameOffset' = frameOffset]_vars

\* C30: a pointer-down on the layer, with segments that do not overlap, emits
\* exactly one zoomview.mousedown event; its time is a defined Number, the
\* time under the pointer; it carries the group whose body the pointer is
\* over, and no group when the pointer is over no body.
MouseDownEmitsOneTimedEvent ==
  (handled = "mousedown" /\ error = "none" /\ Disjoint(segs0) /\ Disjoint(pressTimes)) =>
    LET downs == SelectSeq(emitted, LAMBDA e : e.name = "zoomview.mousedown")
        over == {id \in Registered : Truthy(groups[refOf[id]].isMouseOver)}
    IN /\ Len(downs) = 1
       /\ downs[1].time # NaN
       /\ downs[1].time = pixelsToTime(frameOffset + mouseX)
       /\ IF over = {} THEN downs[1].group = NoGroup
          ELSE downs[1].segment \in over /\ downs[1].group = refOf[downs[1].segment]

\* a handle of some registered group is being dragged
SomeHandleDragged(gs, refs) ==
  \E id \in SegIds : refs[id] # NoGroup /\
    (gs[refs[id]].startHandle.isMouseDragging \/ gs[refs[id]].endHandle.isMouseDragging)

\* C31: the pointer leaving the layer while a handle is dragged changes no
\* boundary: the mouseleave handler leaves every segment's start and end time
\* as they were and emits no segments.dragged event.
LeaveWhileDraggingKeepsTimes ==
  [][(handled' = "mouseleave" /\ SomeHandleDragged(groups, refOf)) =>
       (Times(segs') = Times(segs) /\ NoDragged(emitted'))]_vars

\* the handles that are being dragged: the segment and which end
DraggedHandles ==
  {h \in SegIds \X {"start", "end"} :
     /\ refOf[h[1]] # NoGroup
     /\ IF h[2] = "start" THEN groups[refOf[h[1]]].startHandle.isMouseDragging
        ELSE groups[refOf[h[1]]].endHandle.isMouseDragging}

\* C32: at most one handle is being dragged at any time: never both handles of
\* one segment, never handles of two segments.
AtMostOneHandleDragged == Cardinality(DraggedHandles) <= 1

\* C33: the engine never changes the start or end time of a segment whose
\* editable flag is false: it has the times the host gave it.
ReadOnlyTimesKept ==
  \A id \in SegIds : ~segs[id].editable => Times(segs)[id] = Times(segs0)[id]

\* the enter and leave events of one kind ("segmentGroup" for the body,
\* "segmentGroup.handle" for a handle) that a handler emitted for group r
HoverEventsOf(evs, kind, r, isInHandle) ==
  SelectSeq(evs, LAMBDA e : /\ e.name \in {kind \o ".mouseenter", kind \o ".mouseleave"}
                            /\ e.group = r /\ e.isInHandle = isInHandle)

\* the events take turns, the first being an enter unless the flag was true
\* (a mouseenter was the last event) when the handler began
TakeTurns(evs, kind, flag) ==
  \A i \in 1..Len(evs) :
    evs[i].name = kind \o (IF (i % 2 = 1) = Truthy(flag) THEN ".mouseleave" ELSE ".mouseenter")

\* C34: for each Visual, and for each of its handles, mouseenter and mouseleave
\* events alternate and begin with mouseenter: a mouseleave is emitted only
\* after a mouseenter that no mouseleave followed, a mouseenter only when
\* there is no such mouseenter.  A hover flag that is undefined has had no
\* event, one that is not true has had no mouseenter since the last mouseleave.
HoverEventsAlternate ==
  [][\A r \in Refs : groups'[r].live =>
       /\ TakeTurns(HoverEventsOf(emitted', "segmentGroup", r, FALSE), "segmentGroup",
                    IF groups[r].live THEN groups[r].isMouseOver ELSE "undefined")
       /\ \A isStart \in BOOLEAN :
            TakeTurns(HoverEventsOf(emitted', "segmentGroup.handle", r, isStart),
                      "segmentGroup.handle",
                      IF groups[r].live THEN handleOver(groups[r], isStart)
                      ELSE "undefined")]_vars

\* the registered Visuals whose body the pointer is over
BodiesHovered == {id \in Registered : Truthy(groups[refOf[id]].isMouseOver)}

\* C35 as stated: while the segments do not overlap, after every handler at
\* most one registered Visual has its body hovered.
OneBodyHovered ==
  (error = "none" /\ Disjoint(segs) /\
   \A id \in SegIds : segs[id].startTime < segs[id].endTime) =>
    Cardinality(BodiesHovered) <= 1

\* C35: when the segments have not overlapped since the host added them, after
\* every handler at most one registered Visual has its body hovered, also when
\* two segments share a boundary and the pointer is on the shared pixel.
OneBodyHoveredWhileApart ==
  (error = "none" /\ Disjoint(segs0) /\ Disjoint(segs)) =>
    Cardinality(BodiesHovered) <= 1

\* the pointer is on the pixel two registered segments share, and is over the
\* body of the left one alone
OneBodyHoveredWitness ==
  /\ error = "none" /\ Disjoint(segs0) /\ Disjoint(segs)
  /\ handled \in {"mouseenter", "mousemove"}
  /\ Registered = SegIds
  /\ \E a, b \in SegIds :
       /\ a # b /\ segs[a].endTime = segs[b].startTime
       /\ mouseX = groups[refOf[b]].highlightRect.x
       /\ mouseX = groups[refOf[a]].highlightRect.x + groups[refOf[a]].highlightRect.width
       /\ BodiesHovered = {a}

\* C36: at most one segment of the store is focused at any time, also after
\* a focused segment has been scrolled out of the window; stated for segments
\* that do not overlap.
OneSegmentFocused ==
  (error = "none" /\ Disjoint(segs0) /\ Disjoint(segs)) =>
    Cardinality({id \in SegIds : segs[id].isFocused = "true"}) <= 1

\* the handles of group grp are hidden by the render (the else branch of lines
\* 1350-1382): its highlight is not wider than the two handles together
HandlesHidden(grp) == grp.highlightRect.width <= PX(HandleSize) + PX(HandleSize)

\* C37: a handle is engaged only while it is shown: no handle of a registered
\* Visual whose handles are rendered hidden is being dragged.
HiddenHandlesNeverEngaged ==
  \A id \in Registered :
    HandlesHidden(groups[refOf[id]]) => \A isStart \in BOOLEAN : ~DraggedIn(refOf, groups, id, isStart)

\* C38: after the handler of segments.select has run for a segment S of the
\* store, scroll included, S intersects the window and S's Visual is the one
\* whose body is hovered; after a select of no segment no Visual is hovered.
\* Stated for segments that do not overlap.
SelectHoversSelected ==
  [][\A id \in {NoSegment} \cup {store[i] : i \in 1..Len(store)} :
       (/\ Commit(onSegmentsSelect(World, id), "segments.select")
        /\ error' = "none" /\ Disjoint(segs)) =>
         IF id = NoSegment THEN BodiesHovered' = {}
         ELSE id \in VisibleInWindow' /\ BodiesHovered' = {id}]_vars

\* C39: once _updateWaveform has run the frame offset is a whole number of
\* pixels from 0 to max(0, pixelLength - width), and 0 when the waveform is
\* shorter than the view.
FrameOffsetInRange ==
  handled = "user_scroll" =>
    /\ frameOffset # NaN
    /\ frameOffset % PX(1) = 0
    /\ 0 <= frameOffset
    /\ frameOffset <= (IF PX(PixelLength) > Width THEN PX(PixelLength) - Width ELSE 0)
    /\ PX(PixelLength) < Width => frameOffset = 0

\* C40: view.setAmplitudeScale called with a value that is not a Number or
\* not finite (NaN, Infinity, -Infinity) raises an error and leaves the
\* view's amplitude scale and the waveform shape's scale as they were; called
\* with a finite Number it raises nothing and sets both to that Number.
AmplitudeScaleSetOrRejected ==
  [][handled' = "setAmplitudeScale" =>
       IF /\ amplitude'.given.type = "number"
          /\ amplitude'.given.value \notin {NaN, Infinity, 0 - Infinity}
       THEN /\ error' = "none"
            /\ amplitude'.view = amplitude'.given
            /\ amplitude'.shape = amplitude'.given
       ELSE /\ error' # "none"
            /\ amplitude'.view = amplitude.view
            /\ amplitude'.shape = amplitude.shape]_vars

\* a call with NaN was rejected after a call with 2.5 was accepted
AmplitudeScaleRejectedWitness ==
  /\ handled = "setAmplitudeScale"
  /\ error = "Error"
  /\ amplitude.given = [type |-> "number", value |-> NaN]
  /\ amplitude.view = [type |-> "number", value |-> MaxScale]
  /\ amplitude.shape = [type |-> "number", value |-> MaxScale]

====
